---- MODULE Spec2Model ----
(***************************************************************************)
(* Epoch processing of the beacon chain (PrepareEpochProcess followed by   *)
(* ProcessEpochRegistryUpdates), the exits that block processing initiates *)
(* before it (ProcessVoluntaryExits, InitiateValidatorExit),               *)
(* indexed-attestation validation, and the attester-slashing validation of *)
(* gossip with its slashing condition and index join.                      *)
(*                                                                         *)
(* Validator indices are 0-based as in the Go code: the registry and the   *)
(* Statuses array are functions over 0 .. count-1; the queues of indices   *)
(* are sequences.  Flag bitsets are sets of flag names: x |= f is union    *)
(* and HasMarkers(m) is subset.                                            *)
(***************************************************************************)
EXTENDS Integers, Sequences, FiniteSets, TLC

VARIABLES
    validators,         \* state.Validators(): the mutable registry
    epc,                \* EpochsContext: CurrentEpoch, PreviousEpoch
    finalizedEpoch,     \* state.FinalizedCheckpoint().Epoch
    prevAtts,           \* state.PreviousEpochAttestations()
    currAtts,           \* state.CurrentEpochAttestations()
    blockRoots,         \* state block roots, by slot
    ctxDone,            \* ctx.Done() is closed
    pc,                 \* position of the caller in the epoch transition
    process,            \* the EpochProcess returned by PrepareEpochProcess, or Nil
    err,                \* the error returned by the last call
    loop,               \* position of a call inside its loop: PrepareEpochProcess,
                        \* ProcessEpochRegistryUpdates, ProcessVoluntaryExits
    failAt,             \* the registry or state access that fails, counted from 1; 0: none fails
    attIn,              \* inputs of a call: an indexed attestation, a pair of
                        \* attestation data, a pair of index lists, an attester
                        \* slashing, a list of signed exits
    attOut              \* result of the call

vars == <<validators, epc, finalizedEpoch, prevAtts, currAtts, blockRoots,
          ctxDone, pc, process, err, loop, failAt, attIn, attOut>>

(***************************************************************************)
(* Bounds of the model.                                                    *)
(***************************************************************************)
MaxValidators == 4
MaxPrevAtts == 2
MaxCurrAtts == 1
MaxTransitions == 2
StartEpoch == 2

(***************************************************************************)
(* Program constants.  The configuration values carry the mainnet preset   *)
(* in units of 10^9 Gwei for balances and scaled down for the epoch        *)
(* deltas and the churn quotient, so that small registries cross them.     *)
(***************************************************************************)
FAR_FUTURE_EPOCH == 1000000
GENESIS_EPOCH == 0
ValidatorIndexMarker == 1000001

MIN_PER_EPOCH_CHURN_LIMIT == 1
CHURN_LIMIT_QUOTIENT == 2
MAX_SEED_LOOKAHEAD == 1
MIN_VALIDATOR_WITHDRAWABILITY_DELAY == 3
EPOCHS_PER_SLASHINGS_VECTOR == 8
EFFECTIVE_BALANCE_INCREMENT == 1
EJECTION_BALANCE == 16
MAX_EFFECTIVE_BALANCE == 32
SLOTS_PER_EPOCH == 2
MAX_VALIDATORS_PER_COMMITTEE == 3

Nil == "nil"
NoErr == "nil"
TransitionCancelErr == "TransitionCancelErr"

UnslashedAttester == "UnslashedAttester"
EligibleAttester == "EligibleAttester"
PrevSourceAttester == "PrevSourceAttester"
PrevTargetAttester == "PrevTargetAttester"
PrevHeadAttester == "PrevHeadAttester"
CurrSourceAttester == "CurrSourceAttester"
CurrTargetAttester == "CurrTargetAttester"
CurrHeadAttester == "CurrHeadAttester"

(***************************************************************************)
(* Helpers of the repository that the epoch code calls.                    *)
(***************************************************************************)
Count(f) == Cardinality(DOMAIN f)

MaxU64(a, b) == IF a > b THEN a ELSE b

\* activation_epoch <= epoch < exit_epoch
IsActive(flat, epoch) == flat.ActivationEpoch <= epoch /\ epoch < flat.ExitEpoch

ComputeActivationExitEpoch(epoch) == epoch + 1 + MAX_SEED_LOOKAHEAD

EpochStartSlot(epoch) == epoch * SLOTS_PER_EPOCH

GetBlockRootAtSlot(roots, slot) == roots[slot]

\* One committee per slot: the validators whose index is congruent to the slot.
GetBeaconCommittee(count, slot, index) ==
    LET RECURSIVE Members(_)
        Members(i) == IF i >= count THEN <<>>
                      ELSE (IF i % SLOTS_PER_EPOCH = slot % SLOTS_PER_EPOCH
                            THEN <<i>> ELSE <<>>) \o Members(i + 1)
    IN  Members(0)

\* Keep the committee members whose bit is set in the aggregation bitfield.
FilterParticipants(bits, committee) ==
    LET RECURSIVE Keep(_)
        Keep(j) == IF j > Len(committee) THEN <<>>
                   ELSE (IF j \in bits THEN <<committee[j]>> ELSE <<>>) \o Keep(j + 1)
    IN  Keep(1)

GetChurnLimit(activeValidatorCount) ==
    MaxU64(MIN_PER_EPOCH_CHURN_LIMIT, activeValidatorCount \div CHURN_LIMIT_QUOTIENT)

(***************************************************************************)
(* PrepareEpochProcess, pass 1: one status per validator and the queues.   *)
(***************************************************************************)
ZeroValidator ==
    [EffectiveBalance |-> 0, Slashed |-> FALSE, ActivationEligibilityEpoch |-> 0,
     ActivationEpoch |-> 0, ExitEpoch |-> 0, WithdrawableEpoch |-> 0]

ZeroStatus ==
    [Validator |-> ZeroValidator, Flags |-> {}, Active |-> FALSE,
     InclusionDelay |-> 0, AttestedProposer |-> 0]

NewEpochProcess(count, prevEpoch, currentEpoch) ==
    [PrevEpoch |-> prevEpoch, CurrEpoch |-> currentEpoch,
     Statuses |-> [i \in 0 .. count - 1 |-> ZeroStatus],
     TotalActiveStake |-> 0,
     PrevEpochUnslashedStake |-> [SourceStake |-> 0, TargetStake |-> 0, HeadStake |-> 0],
     CurrEpochUnslashedTargetStake |-> 0,
     ActiveValidators |-> 0,
     IndicesToSlash |-> <<>>,
     IndicesToSetActivationEligibility |-> <<>>,
     IndicesToMaybeActivate |-> <<>>,
     IndicesToEject |-> <<>>,
     ExitQueueEnd |-> 0, ExitQueueEndChurn |-> 0, ChurnLimit |-> 0]

SlashingsEpoch(currentEpoch) == currentEpoch + (EPOCHS_PER_SLASHINGS_VECTOR \div 2)

InitialStatus_ElseUnslashed(flat, prevEpoch, currentEpoch) ==
    [Validator |-> flat,
     AttestedProposer |-> ValidatorIndexMarker,
     InclusionDelay |-> 0,
     Flags |-> (IF flat.Slashed /\ SlashingsEpoch(currentEpoch) = flat.WithdrawableEpoch
                THEN {} ELSE {UnslashedAttester})
               \cup (IF IsActive(flat, prevEpoch)
                        \/ (flat.Slashed /\ prevEpoch + 1 < flat.WithdrawableEpoch)
                     THEN {EligibleAttester} ELSE {}),
     Active |-> IsActive(flat, currentEpoch)]

InitialStatus(flat, prevEpoch, currentEpoch) ==
    [Validator |-> flat,
     AttestedProposer |-> ValidatorIndexMarker,
     InclusionDelay |-> 0,
     Flags |-> (IF flat.Slashed THEN {} ELSE {UnslashedAttester})
               \cup (IF IsActive(flat, prevEpoch)
                        \/ (flat.Slashed /\ prevEpoch + 1 < flat.WithdrawableEpoch)
                     THEN {EligibleAttester} ELSE {}),
     Active |-> IsActive(flat, currentEpoch)]

QueueToSlash(flat, currentEpoch) ==
    flat.Slashed /\ SlashingsEpoch(currentEpoch) = flat.WithdrawableEpoch

QueueToSetActivationEligibility(flat) ==
    flat.ActivationEligibilityEpoch = FAR_FUTURE_EPOCH
    /\ flat.EffectiveBalance = MAX_EFFECTIVE_BALANCE

QueueToMaybeActivate(flat, currentEpoch) ==
    flat.ActivationEpoch = FAR_FUTURE_EPOCH
    /\ flat.ActivationEligibilityEpoch <= currentEpoch

QueueToEject_AnyExit(flat, active) ==
    active /\ flat.EffectiveBalance <= EJECTION_BALANCE

QueueToEject(flat, active) ==
    active /\ flat.EffectiveBalance <= EJECTION_BALANCE
    /\ flat.ExitEpoch = FAR_FUTURE_EPOCH

\* One iteration of the validator loop; loc is [out, activeCount].
Pass1Step(loc, i, flat) ==
    LET out == loc.out
        status == InitialStatus(flat, out.PrevEpoch, out.CurrEpoch)
        App(q, cond) == IF cond THEN Append(q, i) ELSE q
    IN  [out |->
           [out EXCEPT
              !.Statuses[i] = status,
              !.IndicesToSlash = App(@, QueueToSlash(flat, out.CurrEpoch)),
              !.TotalActiveStake = IF status.Active THEN @ + flat.EffectiveBalance ELSE @,
              !.IndicesToSetActivationEligibility =
                  App(@, QueueToSetActivationEligibility(flat)),
              !.IndicesToMaybeActivate = App(@, QueueToMaybeActivate(flat, out.CurrEpoch)),
              !.IndicesToEject = App(@, QueueToEject(flat, status.Active))],
         activeCount |-> IF status.Active THEN loc.activeCount + 1 ELSE loc.activeCount]

RECURSIVE Pass1(_, _, _)
Pass1(vals, loc, i) ==
    IF i >= Count(vals) THEN loc
    ELSE Pass1(vals, Pass1Step(loc, i, vals[i]), i + 1)

(***************************************************************************)
(* The sort of the maybe-activate queue: sort.Slice with the comparator    *)
(* of the code, computed here by insertion with that comparator.           *)
(***************************************************************************)
MaybeActivateLess_EpochOnly(statuses, valIndexA, valIndexB) ==
    statuses[valIndexA].Validator.ActivationEligibilityEpoch
        > statuses[valIndexB].Validator.ActivationEligibilityEpoch

MaybeActivateLess_NoTieBreak(statuses, valIndexA, valIndexB) ==
    statuses[valIndexA].Validator.ActivationEligibilityEpoch
        < statuses[valIndexB].Validator.ActivationEligibilityEpoch

MaybeActivateLess(statuses, valIndexA, valIndexB) ==
    LET a == statuses[valIndexA].Validator.ActivationEligibilityEpoch
        b == statuses[valIndexB].Validator.ActivationEligibilityEpoch
    IN  IF a = b THEN valIndexA < valIndexB ELSE a < b

RECURSIVE InsertSorted(_, _, _)
InsertSorted(statuses, sorted, x) ==
    IF sorted = <<>> THEN <<x>>
    ELSE IF MaybeActivateLess(statuses, x, Head(sorted))
         THEN <<x>> \o sorted
         ELSE <<Head(sorted)>> \o InsertSorted(statuses, Tail(sorted), x)

SortSlice_RegistryOrder(statuses, q) == q

RECURSIVE SortSlice(_, _)
SortSlice(statuses, q) ==
    IF q = <<>> THEN <<>>
    ELSE InsertSorted(statuses, SortSlice(statuses, SubSeq(q, 1, Len(q) - 1)), q[Len(q)])

\* sort.Slice is not a stable sort: it may return any arrangement of the
\* queue that its comparator finds sorted (no element less than the one
\* before it, as sort.IsSorted has it).
RECURSIVE Arrangements(_)
Arrangements(S) ==
    IF S = {} THEN {<<>>}
    ELSE UNION {{<<x>> \o p : p \in Arrangements(S \ {x})} : x \in S}

SortSliceOutcomes(statuses, q) ==
    {p \in Arrangements({q[k] : k \in 1 .. Len(q)}) :
        \A k \in 1 .. Len(p) - 1 : ~MaybeActivateLess(statuses, p[k + 1], p[k])}

(***************************************************************************)
(* The exit-queue cursor.                                                  *)
(***************************************************************************)
ExitQueueCursor(out, activeCount) ==
    LET exitQueueEnd == ComputeActivationExitEpoch(out.CurrEpoch)
        exitQueueEndChurn ==
            Cardinality({i \in DOMAIN out.Statuses :
                            out.Statuses[i].Validator.ExitEpoch = exitQueueEnd})
        churnLimit == GetChurnLimit(activeCount)
    IN  IF exitQueueEndChurn >= churnLimit
        THEN [out EXCEPT !.ExitQueueEnd = exitQueueEnd + 1,
                         !.ExitQueueEndChurn = 0,
                         !.ChurnLimit = churnLimit]
        ELSE [out EXCEPT !.ExitQueueEnd = exitQueueEnd,
                         !.ExitQueueEndChurn = exitQueueEndChurn,
                         !.ChurnLimit = churnLimit]

(***************************************************************************)
(* PrepareEpochProcess, pass 2: processEpoch over one list of pending      *)
(* attestations, with the flags of that epoch.                             *)
(***************************************************************************)
\* The earliest inclusion: lines 216-226, previous epoch only.
UpdateInclusion(status, att) ==
    IF status.AttestedProposer = ValidatorIndexMarker
       \/ status.InclusionDelay > att.InclusionDelay
    THEN [status EXCEPT !.InclusionDelay = att.InclusionDelay,
                        !.AttestedProposer = att.ProposerIndex]
    ELSE status

AttestationFlags_HeadAlone(att, actualTargetBlockRoot, attBlockRoot, sourceFlag, targetFlag, headFlag) ==
    {sourceFlag}
    \cup (IF att.Data.Target.Root = actualTargetBlockRoot THEN {targetFlag} ELSE {})
    \cup (IF att.Data.BeaconBlockRoot = attBlockRoot THEN {headFlag} ELSE {})

\* The flags one attestation gives each of its participants: lines 228-243.
AttestationFlags(att, actualTargetBlockRoot, attBlockRoot, sourceFlag, targetFlag, headFlag) ==
    {sourceFlag}
    \cup (IF att.Data.Target.Root = actualTargetBlockRoot
          THEN {targetFlag}
               \cup (IF att.Data.BeaconBlockRoot = attBlockRoot THEN {headFlag} ELSE {})
          ELSE {})

ProcessAttestation(out, att, roots, epoch, sourceFlag, targetFlag, headFlag) ==
    LET actualTargetBlockRoot == GetBlockRootAtSlot(roots, EpochStartSlot(epoch))
        attBlockRoot == GetBlockRootAtSlot(roots, att.Data.Slot)
        committee == GetBeaconCommittee(Count(out.Statuses), att.Data.Slot, att.Data.Index)
        participants == FilterParticipants(att.AggregationBits, committee)
        pset == {participants[j] : j \in 1 .. Len(participants)}
        flags == AttestationFlags(att, actualTargetBlockRoot, attBlockRoot,
                                  sourceFlag, targetFlag, headFlag)
        Incl(status) == IF epoch = out.PrevEpoch THEN UpdateInclusion(status, att)
                        ELSE status
    IN  [out EXCEPT !.Statuses =
            [p \in DOMAIN out.Statuses |->
                IF p \in pset
                THEN [Incl(out.Statuses[p]) EXCEPT !.Flags = @ \cup flags]
                ELSE out.Statuses[p]]]

RECURSIVE ProcessEpochAtts(_, _, _, _, _, _, _, _)
ProcessEpochAtts(out, atts, i, roots, epoch, sourceFlag, targetFlag, headFlag) ==
    IF i > Len(atts) THEN out
    ELSE ProcessEpochAtts(
            ProcessAttestation(out, atts[i], roots, epoch, sourceFlag, targetFlag, headFlag),
            atts, i + 1, roots, epoch, sourceFlag, targetFlag, headFlag)

(***************************************************************************)
(* PrepareEpochProcess, the stake totals and their floor: lines 265-296.   *)
(***************************************************************************)
HasMarkers(flags, markers) == markers \subseteq flags

RECURSIVE SumBalances(_, _)
SumBalances(statuses, S) ==
    IF S = {} THEN 0
    ELSE LET i == CHOOSE x \in S : TRUE
         IN  statuses[i].Validator.EffectiveBalance + SumBalances(statuses, S \ {i})

StakeOf(statuses, markers) ==
    SumBalances(statuses, {i \in DOMAIN statuses : HasMarkers(statuses[i].Flags, markers)})

ClampStake_NoFloor(stake) == stake

ClampStake(stake) ==
    IF stake < EFFECTIVE_BALANCE_INCREMENT THEN EFFECTIVE_BALANCE_INCREMENT ELSE stake

AggregateStake(out) ==
    [out EXCEPT
       !.PrevEpochUnslashedStake =
           [SourceStake |-> ClampStake(StakeOf(out.Statuses,
                                {PrevSourceAttester, UnslashedAttester})),
            TargetStake |-> ClampStake(StakeOf(out.Statuses,
                                {PrevSourceAttester, UnslashedAttester, PrevTargetAttester})),
            HeadStake |-> ClampStake(StakeOf(out.Statuses,
                                {PrevSourceAttester, UnslashedAttester, PrevTargetAttester,
                                 PrevHeadAttester}))],
       !.CurrEpochUnslashedTargetStake =
           ClampStake(StakeOf(out.Statuses, {CurrTargetAttester, UnslashedAttester})),
       !.TotalActiveStake = ClampStake(@)]

(***************************************************************************)
(* PrepareEpochProcess: the EpochProcess it returns when it is not         *)
(* cancelled.                                                              *)
(***************************************************************************)
PrepareEpochProcessOut(vals, ep, patts, catts, roots) ==
    LET prevEpoch == ep.PreviousEpoch
        currentEpoch == ep.CurrentEpoch
        loc == Pass1(vals,
                     [out |-> NewEpochProcess(Count(vals), prevEpoch, currentEpoch),
                      activeCount |-> 0],
                     0)
        sorted == [loc.out EXCEPT !.IndicesToMaybeActivate = SortSlice(loc.out.Statuses, @)]
        queued == ExitQueueCursor(sorted, loc.activeCount)
        afterPrev == ProcessEpochAtts(queued, patts, 1, roots, prevEpoch,
                                      PrevSourceAttester, PrevTargetAttester, PrevHeadAttester)
        afterCurr == ProcessEpochAtts(afterPrev, catts, 1, roots, currentEpoch,
                                      CurrSourceAttester, CurrTargetAttester, CurrHeadAttester)
    IN  AggregateStake(afterCurr)

(***************************************************************************)
(* ProcessEpochRegistryUpdates: the three passes over the registry.        *)
(***************************************************************************)
\* cur is [vals, exitEnd, endChurn]: one iteration of the ejection loop.
EjectStep_NoAdvance(cur, index, churnLimit) ==
    [vals |-> [cur.vals EXCEPT
                  ![index].ExitEpoch = cur.exitEnd,
                  ![index].WithdrawableEpoch =
                      cur.exitEnd + MIN_VALIDATOR_WITHDRAWABILITY_DELAY],
     exitEnd |-> cur.exitEnd,
     endChurn |-> cur.endChurn + 1]

EjectStep(cur, index, churnLimit) ==
    LET vals2 == [cur.vals EXCEPT
                     ![index].ExitEpoch = cur.exitEnd,
                     ![index].WithdrawableEpoch =
                         cur.exitEnd + MIN_VALIDATOR_WITHDRAWABILITY_DELAY]
        endChurn == cur.endChurn + 1
    IN  IF endChurn >= churnLimit
        THEN [vals |-> vals2, exitEnd |-> cur.exitEnd + 1, endChurn |-> 0]
        ELSE [vals |-> vals2, exitEnd |-> cur.exitEnd, endChurn |-> endChurn]

RECURSIVE EjectLoop(_, _, _, _)
EjectLoop(cur, q, k, churnLimit) ==
    IF k > Len(q) THEN cur
    ELSE EjectLoop(EjectStep(cur, q[k], churnLimit), q, k + 1, churnLimit)

ProcessEjections_FreshCounter(vals, proc) ==
    EjectLoop([vals |-> vals, exitEnd |-> proc.ExitQueueEnd, endChurn |-> 0],
              proc.IndicesToEject, 1, proc.ChurnLimit).vals

ProcessEjections(vals, proc) ==
    EjectLoop([vals |-> vals, exitEnd |-> proc.ExitQueueEnd,
               endChurn |-> proc.ExitQueueEndChurn],
              proc.IndicesToEject, 1, proc.ChurnLimit).vals

ProcessActivationEligibility_Churned(vals, proc, ep) ==
    LET eligibilityEpoch == ep.CurrentEpoch + 1
        q == proc.IndicesToSetActivationEligibility
        S == {q[k] : k \in 1 .. Len(q)}
    IN  [i \in DOMAIN vals |->
            IF i \in S /\ Cardinality({j \in S : j < i}) < proc.ChurnLimit
            THEN [vals[i] EXCEPT !.ActivationEligibilityEpoch = eligibilityEpoch]
            ELSE vals[i]]

ProcessActivationEligibility(vals, proc, ep) ==
    LET eligibilityEpoch == ep.CurrentEpoch + 1
        q == proc.IndicesToSetActivationEligibility
        S == {q[k] : k \in 1 .. Len(q)}
    IN  [i \in DOMAIN vals |->
            IF i \in S THEN [vals[i] EXCEPT !.ActivationEligibilityEpoch = eligibilityEpoch]
            ELSE vals[i]]

Dequeued_NoChurn(proc) == proc.IndicesToMaybeActivate

Dequeued(proc) ==
    IF Len(proc.IndicesToMaybeActivate) > proc.ChurnLimit
    THEN SubSeq(proc.IndicesToMaybeActivate, 1, proc.ChurnLimit)
    ELSE proc.IndicesToMaybeActivate

\* The activation walk, with the early break at the first unfinalized candidate.
RECURSIVE ActivateLoop(_, _, _, _, _, _)
ActivateLoop(vals, proc, dequeued, k, finalized, activationEpoch) ==
    IF k > Len(dequeued) THEN vals
    ELSE IF proc.Statuses[dequeued[k]].Validator.ActivationEligibilityEpoch > finalized
         THEN vals
         ELSE ActivateLoop([vals EXCEPT ![dequeued[k]].ActivationEpoch = activationEpoch],
                           proc, dequeued, k + 1, finalized, activationEpoch)

ProcessActivations(vals, proc, ep, finalized) ==
    ActivateLoop(vals, proc, Dequeued(proc), 1, finalized,
                 ComputeActivationExitEpoch(ep.CurrentEpoch))

RegistryUpdates(vals, proc, ep, finalized) ==
    ProcessActivations(
        ProcessActivationEligibility(ProcessEjections(vals, proc), proc, ep),
        proc, ep, finalized)

(***************************************************************************)
(* ProcessEpochRegistryUpdates, access by access.  Every read of the state *)
(* or the registry and every write of a validator field returns an error   *)
(* that the function returns at once.  An access is a record: a read       *)
(* changes nothing, a write sets one field of one validator.               *)
(***************************************************************************)
AccessErr == "AccessErr"

ReadAccess(what, index) == [kind |-> "read", what |-> what, index |-> index, value |-> 0]

WriteAccess(field, index, value) == [kind |-> "write", what |-> field, index |-> index, value |-> value]

\* Lines 78-94: per index a read of the validator and two writes.
RECURSIVE EjectAccesses(_, _, _, _)
EjectAccesses(cur, q, k, churnLimit) ==
    IF k > Len(q) THEN <<>>
    ELSE <<ReadAccess("Validator", q[k]),
           WriteAccess("ExitEpoch", q[k], cur.exitEnd),
           WriteAccess("WithdrawableEpoch", q[k],
                       cur.exitEnd + MIN_VALIDATOR_WITHDRAWABILITY_DELAY)>>
         \o EjectAccesses(EjectStep(cur, q[k], churnLimit), q, k + 1, churnLimit)

\* Lines 99-108: per index a read of the validator and one write.
RECURSIVE EligibilityAccesses(_, _, _)
EligibilityAccesses(q, k, eligibilityEpoch) ==
    IF k > Len(q) THEN <<>>
    ELSE <<ReadAccess("Validator", q[k]),
           WriteAccess("ActivationEligibilityEpoch", q[k], eligibilityEpoch)>>
         \o EligibilityAccesses(q, k + 1, eligibilityEpoch)

\* Lines 125-138: per index before the break a read of the validator and one write.
RECURSIVE ActivationAccesses(_, _, _, _, _)
ActivationAccesses(proc, dequeued, k, finalized, activationEpoch) ==
    IF k > Len(dequeued) THEN <<>>
    ELSE IF proc.Statuses[dequeued[k]].Validator.ActivationEligibilityEpoch > finalized
         THEN <<>>
         ELSE <<ReadAccess("Validator", dequeued[k]),
                WriteAccess("ActivationEpoch", dequeued[k], activationEpoch)>>
              \o ActivationAccesses(proc, dequeued, k + 1, finalized, activationEpoch)

RegistryAccesses(vals, proc, ep, finalized) ==
    <<ReadAccess("state.Validators", 0)>>
    \o EjectAccesses([vals |-> vals, exitEnd |-> proc.ExitQueueEnd,
                      endChurn |-> proc.ExitQueueEndChurn],
                     proc.IndicesToEject, 1, proc.ChurnLimit)
    \o EligibilityAccesses(proc.IndicesToSetActivationEligibility, 1, ep.CurrentEpoch + 1)
    \o <<ReadAccess("state.FinalizedCheckpoint", 0), ReadAccess("finality.Epoch", 0)>>
    \o ActivationAccesses(proc, Dequeued(proc), 1, finalized,
                          ComputeActivationExitEpoch(ep.CurrentEpoch))

\* The registry after the first n accesses.
RECURSIVE ApplyAccesses(_, _, _)
ApplyAccesses(vals, accesses, n) ==
    IF n = 0 THEN vals
    ELSE LET before == ApplyAccesses(vals, accesses, n - 1)
             a == accesses[n]
         IN  IF a.kind = "write" THEN [before EXCEPT ![a.index][a.what] = a.value]
             ELSE before

RegistryUpdatesRun_Rollback(vals, proc, ep, finalized, fail) ==
    IF fail \in 1 .. Len(RegistryAccesses(vals, proc, ep, finalized))
    THEN [vals |-> vals, err |-> AccessErr]
    ELSE [vals |-> RegistryUpdates(vals, proc, ep, finalized), err |-> NoErr]

\* The run in which access number fail returns an error (none when fail is
\* 0 or beyond the last access): [vals, err].
RegistryUpdatesRun(vals, proc, ep, finalized, fail) ==
    LET accesses == RegistryAccesses(vals, proc, ep, finalized)
    IN  IF fail \in 1 .. Len(accesses)
        THEN [vals |-> ApplyAccesses(vals, accesses, fail - 1), err |-> AccessErr]
        ELSE [vals |-> RegistryUpdates(vals, proc, ep, finalized), err |-> NoErr]

(***************************************************************************)
(* The epoch transition: the caller runs PrepareEpochProcess, then         *)
(* ProcessEpochRegistryUpdates with the EpochProcess it got, and the       *)
(* context may be cancelled by its owner at any time.                      *)
(***************************************************************************)
PrepareEpochProcess ==
    /\ pc = "idle"
    /\ IF ctxDone
       THEN /\ process' = Nil
            /\ err' = TransitionCancelErr
            /\ pc' = "aborted"
       ELSE /\ process' = PrepareEpochProcessOut(validators, epc, prevAtts, currAtts,
                                                 blockRoots)
            /\ err' = NoErr
            /\ pc' = "prepared"
    /\ UNCHANGED <<validators, epc, finalizedEpoch, prevAtts, currAtts, blockRoots,
                   ctxDone, loop, failAt, attIn, attOut>>

ProcessEpochRegistryUpdates_RefreshStatuses ==
    /\ pc = "prepared"
    /\ IF ctxDone
       THEN /\ err' = TransitionCancelErr
            /\ pc' = "aborted"
            /\ UNCHANGED <<validators, process>>
       ELSE LET r == RegistryUpdatesRun(validators, process, epc, finalizedEpoch, failAt)
            IN  /\ validators' = r.vals
                /\ process' = [process EXCEPT !.Statuses =
                                  [i \in DOMAIN @ |-> [@[i] EXCEPT !.Validator = r.vals[i]]]]
                /\ err' = r.err
                /\ pc' = IF r.err = NoErr THEN "updated" ELSE "failed"
    /\ UNCHANGED <<epc, finalizedEpoch, prevAtts, currAtts, blockRoots, ctxDone,
                   loop, failAt, attIn, attOut>>

ProcessEpochRegistryUpdates ==
    /\ pc = "prepared"
    /\ IF ctxDone
       THEN /\ err' = TransitionCancelErr
            /\ pc' = "aborted"
            /\ UNCHANGED validators
       ELSE LET r == RegistryUpdatesRun(validators, process, epc, finalizedEpoch, failAt)
            IN  /\ validators' = r.vals
                /\ err' = r.err
                /\ pc' = IF r.err = NoErr THEN "updated" ELSE "failed"
    /\ UNCHANGED <<epc, finalizedEpoch, prevAtts, currAtts, blockRoots, ctxDone,
                   process, loop, failAt, attIn, attOut>>

\* The owner of the context cancels it.
Cancel ==
    /\ pc \in {"idle", "preparing", "prepared", "updating", "exits"}
    /\ ~ctxDone
    /\ ctxDone' = TRUE
    /\ UNCHANGED <<validators, epc, finalizedEpoch, prevAtts, currAtts, blockRoots,
                   pc, process, err, loop, failAt, attIn, attOut>>

\* The transition is over: the EpochProcess is dropped, the pending
\* attestations rotate, and the next transition starts one epoch later.
NextEpoch ==
    /\ pc = "updated"
    /\ epc.CurrentEpoch < StartEpoch + MaxTransitions - 1
    /\ epc' = [CurrentEpoch |-> epc.CurrentEpoch + 1, PreviousEpoch |-> epc.CurrentEpoch]
    /\ prevAtts' = currAtts
    /\ currAtts' = <<>>
    /\ process' = Nil
    /\ pc' = "idle"
    /\ UNCHANGED <<validators, finalizedEpoch, blockRoots, ctxDone, err, loop, failAt, attIn, attOut>>

Next == PrepareEpochProcess \/ ProcessEpochRegistryUpdates \/ Cancel \/ NextEpoch

(***************************************************************************)
(* Initial states.  A registry is a list of validators, each at one stage  *)
(* of its life relative to the epoch c of the first transition.            *)
(***************************************************************************)
V(bal, slashed, elig, act, exit, wd) ==
    [EffectiveBalance |-> bal, Slashed |-> slashed, ActivationEligibilityEpoch |-> elig,
     ActivationEpoch |-> act, ExitEpoch |-> exit, WithdrawableEpoch |-> wd]

Deposited(c) ==
    {V(b, FALSE, FAR_FUTURE_EPOCH, FAR_FUTURE_EPOCH, FAR_FUTURE_EPOCH, FAR_FUTURE_EPOCH) :
        b \in {EJECTION_BALANCE, MAX_EFFECTIVE_BALANCE}}

Pending(c) ==
    {V(MAX_EFFECTIVE_BALANCE, FALSE, e, FAR_FUTURE_EPOCH, FAR_FUTURE_EPOCH, FAR_FUTURE_EPOCH) :
        e \in c - 2 .. c + 1}

ActiveOnes(c) ==
    {V(b, FALSE, GENESIS_EPOCH, GENESIS_EPOCH, FAR_FUTURE_EPOCH, FAR_FUTURE_EPOCH) :
        b \in {EJECTION_BALANCE, MAX_EFFECTIVE_BALANCE}}

Exiting(c) ==
    {V(EJECTION_BALANCE, FALSE, GENESIS_EPOCH, GENESIS_EPOCH, x,
       x + MIN_VALIDATOR_WITHDRAWABILITY_DELAY) :
        x \in {ComputeActivationExitEpoch(c), ComputeActivationExitEpoch(c) + 1}}

RegistryStages(c) == Deposited(c) \cup Pending(c) \cup ActiveOnes(c) \cup Exiting(c)

StakeStages(c) ==
    {V(MAX_EFFECTIVE_BALANCE, FALSE, GENESIS_EPOCH, GENESIS_EPOCH, FAR_FUTURE_EPOCH,
       FAR_FUTURE_EPOCH),
     V(MAX_EFFECTIVE_BALANCE, TRUE, GENESIS_EPOCH, GENESIS_EPOCH,
       ComputeActivationExitEpoch(c - 1), SlashingsEpoch(c)),
     V(EJECTION_BALANCE, FALSE, FAR_FUTURE_EPOCH, FAR_FUTURE_EPOCH, FAR_FUTURE_EPOCH,
       FAR_FUTURE_EPOCH)}

Registries(stages, n) == UNION {[0 .. k - 1 -> stages] : k \in 0 .. n}

Roots == {"a", "b"}

Slots == 0 .. (StartEpoch + MaxTransitions) * SLOTS_PER_EPOCH

\* The pending attestations of an epoch: the aggregation bits range over the
\* non-empty subsets of the positions of the committee of the slot.
PendingAttestations(epoch, count, delays, proposers) ==
    UNION {
        [AggregationBits : (SUBSET (1 .. Len(GetBeaconCommittee(count, s, 0)))) \ {{}},
         Data : [Slot : {s}, Index : {0}, BeaconBlockRoot : Roots, Target : [Root : Roots]],
         InclusionDelay : delays,
         ProposerIndex : proposers] :
        s \in {EpochStartSlot(epoch), EpochStartSlot(epoch) + 1}}

SeqsUpTo(S, n) == UNION {[1 .. k -> S] : k \in 0 .. n}

InitIdle ==
    /\ ctxDone = FALSE
    /\ pc = "idle"
    /\ process = Nil
    /\ err = NoErr
    /\ loop = Nil
    /\ failAt = 0
    /\ attIn = Nil
    /\ attOut = Nil

Init ==
    /\ epc = [CurrentEpoch |-> StartEpoch, PreviousEpoch |-> StartEpoch - 1]
    /\ validators \in Registries(RegistryStages(StartEpoch), MaxValidators)
    /\ finalizedEpoch \in {StartEpoch - 2, StartEpoch - 1}
    /\ prevAtts = <<>>
    /\ currAtts = <<>>
    /\ blockRoots = [s \in Slots |-> "a"]
    /\ InitIdle

Spec == Init /\ [][Next]_vars

InitStake ==
    /\ epc \in {[CurrentEpoch |-> StartEpoch, PreviousEpoch |-> StartEpoch - 1],
                [CurrentEpoch |-> GENESIS_EPOCH, PreviousEpoch |-> GENESIS_EPOCH]}
    /\ validators \in Registries(StakeStages(StartEpoch), MaxValidators - 1)
    /\ finalizedEpoch = GENESIS_EPOCH
    /\ prevAtts \in IF epc.CurrentEpoch = GENESIS_EPOCH THEN {<<>>}
                    ELSE SeqsUpTo(PendingAttestations(epc.PreviousEpoch, Count(validators), {1}, {0}),
                                  MaxPrevAtts)
    /\ currAtts \in SeqsUpTo(PendingAttestations(epc.CurrentEpoch, Count(validators), {1}, {0}),
                             MaxCurrAtts)
    /\ blockRoots = [s \in Slots |-> IF s % 2 = 0 THEN "a" ELSE "b"]
    /\ InitIdle

SpecStake == InitStake /\ [][Next]_vars

(***************************************************************************)
(* Properties of the registry updates.  While pc = "updated" the snapshot  *)
(* process.Statuses[i].Validator is the registry entry as it was when the  *)
(* transition started.                                                     *)
(***************************************************************************)
Snapshot(i) == process.Statuses[i].Validator

SeqSet(q) == {q[k] : k \in 1 .. Len(q)}

Ejected == SeqSet(process.IndicesToEject)

EjectedAt(e) == {i \in Ejected : validators[i].ExitEpoch = e}

\* C1: after PrepareEpochProcess and ProcessEpochRegistryUpdates of one
\* transition, no exit epoch is assigned to more than ChurnLimit of the
\* validators of IndicesToEject.
C1_ChurnConservation ==
    pc = "updated" =>
        \A i \in Ejected :
            Cardinality(EjectedAt(validators[i].ExitEpoch)) <= process.ChurnLimit

\* More ejections than the churn limit, on top of exits already queued at the
\* exit-queue end, so that the ejections spread over several epochs.
C1_Witness ==
    /\ pc = "updated"
    /\ Len(process.IndicesToEject) > process.ChurnLimit
    /\ process.ChurnLimit > 1
    /\ process.ExitQueueEndChurn > 0
    /\ \E i, j \in Ejected : validators[i].ExitEpoch # validators[j].ExitEpoch

\* C2: a validator whose exit epoch was already set when the transition
\* started keeps its exit epoch and its withdrawable epoch through the
\* ejection pass.
C2_ExitedUnchanged ==
    pc = "updated" =>
        \A i \in DOMAIN validators :
            Snapshot(i).ExitEpoch # FAR_FUTURE_EPOCH =>
                /\ validators[i].ExitEpoch = Snapshot(i).ExitEpoch
                /\ validators[i].WithdrawableEpoch = Snapshot(i).WithdrawableEpoch

\* An already-exited validator that is still active with a balance at the
\* ejection threshold went through a pass that ejected others to another epoch.
C2_Witness ==
    /\ pc = "updated"
    /\ Len(process.IndicesToEject) > 0
    /\ \E i \in DOMAIN validators :
          /\ Snapshot(i).ExitEpoch # FAR_FUTURE_EPOCH
          /\ Snapshot(i).ExitEpoch # process.ExitQueueEnd
          /\ process.Statuses[i].Active
          /\ Snapshot(i).EffectiveBalance <= EJECTION_BALANCE

Activated == {i \in DOMAIN validators : validators[i].ActivationEpoch # Snapshot(i).ActivationEpoch}

\* C3: one call activates at most ChurnLimit validators, each of them queued
\* in IndicesToMaybeActivate with a snapshot eligibility epoch not after the
\* finalized epoch, and each gets ComputeActivationExitEpoch(current epoch).
C3_ActivationChurn ==
    pc = "updated" =>
        /\ Cardinality(Activated) <= process.ChurnLimit
        /\ \A i \in Activated :
              /\ i \in SeqSet(process.IndicesToMaybeActivate)
              /\ Snapshot(i).ActivationEligibilityEpoch <= finalizedEpoch
              /\ validators[i].ActivationEpoch = epc.CurrentEpoch + 1 + MAX_SEED_LOOKAHEAD
        /\ \A i \in DOMAIN validators \ SeqSet(process.IndicesToMaybeActivate) :
              validators[i].ActivationEpoch = Snapshot(i).ActivationEpoch

\* The queue holds more finalized candidates than the churn limit admits.
C3_Witness ==
    /\ pc = "updated"
    /\ Activated # {}
    /\ Cardinality(Activated) = process.ChurnLimit
    /\ \E i \in SeqSet(process.IndicesToMaybeActivate) \ Activated :
          Snapshot(i).ActivationEligibilityEpoch <= finalizedEpoch

\* C4: after a successful PrepareEpochProcess the maybe-activate queue holds
\* exactly the validators with an unset activation epoch and an eligibility
\* epoch not after the current epoch, each once, strictly ascending in
\* (activation eligibility epoch, validator index).
C4_MaybeActivateSorted ==
    pc = "prepared" =>
        LET q == process.IndicesToMaybeActivate
            elig(i) == validators[i].ActivationEligibilityEpoch
        IN  /\ SeqSet(q) = {i \in DOMAIN validators :
                               /\ validators[i].ActivationEpoch = FAR_FUTURE_EPOCH
                               /\ elig(i) <= epc.CurrentEpoch}
            /\ Len(q) = Cardinality(SeqSet(q))
            /\ \A k \in 1 .. Len(q) - 1 :
                  \/ elig(q[k]) < elig(q[k + 1])
                  \/ elig(q[k]) = elig(q[k + 1]) /\ q[k] < q[k + 1]

\* The sort moved a higher index before a lower one, and broke a tie by index.
C4_Witness ==
    /\ pc = "prepared"
    /\ LET q == process.IndicesToMaybeActivate
       IN  /\ \E k \in 1 .. Len(q) - 1 : q[k] > q[k + 1]
           /\ \E k \in 1 .. Len(q) - 1 :
                 validators[q[k]].ActivationEligibilityEpoch
                     = validators[q[k + 1]].ActivationEligibilityEpoch
           /\ Len(q) < Count(validators)

(***************************************************************************)
(* Properties of the statuses and the stake totals.                        *)
(***************************************************************************)
\* C5: every stake total of a returned EpochProcess is at least
\* EFFECTIVE_BALANCE_INCREMENT.
C5_StakeFloor ==
    pc = "prepared" =>
        /\ process.TotalActiveStake >= EFFECTIVE_BALANCE_INCREMENT
        /\ process.PrevEpochUnslashedStake.SourceStake >= EFFECTIVE_BALANCE_INCREMENT
        /\ process.PrevEpochUnslashedStake.TargetStake >= EFFECTIVE_BALANCE_INCREMENT
        /\ process.PrevEpochUnslashedStake.HeadStake >= EFFECTIVE_BALANCE_INCREMENT
        /\ process.CurrEpochUnslashedTargetStake >= EFFECTIVE_BALANCE_INCREMENT

\* A registry without active validators and without attestations.
C5_Witness ==
    /\ pc = "prepared"
    /\ Count(validators) > 0
    /\ \A i \in DOMAIN validators : ~process.Statuses[i].Active
    /\ prevAtts = <<>>
    /\ currAtts = <<>>
    /\ process.TotalActiveStake = EFFECTIVE_BALANCE_INCREMENT

FlagsNested(flags, sourceFlag, targetFlag, headFlag) ==
    /\ headFlag \in flags => targetFlag \in flags /\ sourceFlag \in flags
    /\ targetFlag \in flags => sourceFlag \in flags

\* C6: in every status, the head flag comes with the target and the source
\* flag and the target flag comes with the source flag, for the previous and
\* for the current epoch.
C6_HeadImpliesTarget ==
    pc = "prepared" =>
        \A i \in DOMAIN process.Statuses :
            /\ FlagsNested(process.Statuses[i].Flags,
                           PrevSourceAttester, PrevTargetAttester, PrevHeadAttester)
            /\ FlagsNested(process.Statuses[i].Flags,
                           CurrSourceAttester, CurrTargetAttester, CurrHeadAttester)

\* An attestation whose head root matches while its target root does not,
\* next to a validator that got the head flag from another record.
C6_Witness ==
    /\ pc = "prepared"
    /\ \E k \in 1 .. Len(prevAtts) :
          /\ prevAtts[k].Data.BeaconBlockRoot = blockRoots[prevAtts[k].Data.Slot]
          /\ prevAtts[k].Data.Target.Root # blockRoots[EpochStartSlot(epc.PreviousEpoch)]
    /\ \E i \in DOMAIN process.Statuses : PrevHeadAttester \in process.Statuses[i].Flags
    /\ \E i \in DOMAIN process.Statuses : CurrHeadAttester \in process.Statuses[i].Flags
    /\ \E i \in DOMAIN process.Statuses :
          /\ PrevSourceAttester \in process.Statuses[i].Flags
          /\ PrevTargetAttester \notin process.Statuses[i].Flags

(***************************************************************************)
(* Indexed-attestation validation.  attIn is the input: the attesting      *)
(* indices, the indices the public-key cache holds a key for, and the      *)
(* verdict of the aggregate verifier on the keys, signing root and         *)
(* signature at hand.  The registry is validators.  A result is the        *)
(* error returned, the index set returned, and the calls made to the       *)
(* state, the key cache and the verifier, in order.                        *)
(***************************************************************************)
ErrIndicesCount == "invalid indices count in indexed attestation"
ErrEmpty == "in phase 0 no empty attestation signatures are allowed"
ErrNotSorted == "attestation indices are not sorted"
ErrDuplicate == "attestation indices are duplicate"
ErrOutOfRange == "attestation indices contain out of range index"
ErrNoPubkey == "could not find pubkey for index"
ErrSignature == "could not verify BLS signature for indexed attestation"

\* sort.IsSorted over ValidatorSet: no element is less than the one before it.
IsSorted(indices) ==
    \A i \in 2 .. Len(indices) : ~(indices[i] < indices[i - 1])

IsValidIndex(vals, index) == index < Count(vals)

ValidateIndexedAttestationIndicesSet_NoDuplicateScan(indices) ==
    IF Len(indices) > MAX_VALIDATORS_PER_COMMITTEE
    THEN [indices |-> <<>>, err |-> ErrIndicesCount]
    ELSE IF Len(indices) <= 0
    THEN [indices |-> <<>>, err |-> ErrEmpty]
    ELSE IF ~IsSorted(indices)
    THEN [indices |-> <<>>, err |-> ErrNotSorted]
    ELSE [indices |-> indices, err |-> NoErr]

ValidateIndexedAttestationIndicesSet(indices) ==
    IF Len(indices) > MAX_VALIDATORS_PER_COMMITTEE
    THEN [indices |-> <<>>, err |-> ErrIndicesCount]
    ELSE IF Len(indices) <= 0
    THEN [indices |-> <<>>, err |-> ErrEmpty]
    ELSE IF ~IsSorted(indices)
    THEN [indices |-> <<>>, err |-> ErrNotSorted]
    ELSE IF \E i \in 2 .. Len(indices) : indices[i - 1] = indices[i]
    THEN [indices |-> <<>>, err |-> ErrDuplicate]
    ELSE [indices |-> indices, err |-> NoErr]

ValidateIndexedAttestationNoSignature_FirstIndex(vals, indices) ==
    LET r == ValidateIndexedAttestationIndicesSet(indices)
    IN  IF r.err # NoErr THEN [err |-> r.err, calls |-> <<>>]
        ELSE IF ~IsValidIndex(vals, r.indices[1])
        THEN [err |-> ErrOutOfRange, calls |-> <<"IsValidIndex">>]
        ELSE [err |-> NoErr, calls |-> <<"IsValidIndex">>]

ValidateIndexedAttestationNoSignature(vals, indices) ==
    LET r == ValidateIndexedAttestationIndicesSet(indices)
    IN  IF r.err # NoErr THEN [err |-> r.err, calls |-> <<>>]
        ELSE IF ~IsValidIndex(vals, r.indices[Len(r.indices)])
        THEN [err |-> ErrOutOfRange, calls |-> <<"IsValidIndex">>]
        ELSE [err |-> NoErr, calls |-> <<"IsValidIndex">>]

\* The key lookups, in attesting-index order, up to the first missing key;
\* keys is the list built by the appends, a key named by the index it is
\* cached under.
RECURSIVE PubkeyLookups(_, _, _)
PubkeyLookups(pubCache, indices, k) ==
    IF k > Len(indices) THEN [ok |-> TRUE, calls |-> <<>>, keys |-> <<>>]
    ELSE IF indices[k] \notin pubCache
    THEN [ok |-> FALSE, calls |-> <<"Pubkey">>, keys |-> <<>>]
    ELSE LET rest == PubkeyLookups(pubCache, indices, k + 1)
         IN  [ok |-> rest.ok, calls |-> <<"Pubkey">> \o rest.calls,
              keys |-> <<indices[k]>> \o rest.keys]

ValidateIndexedAttestationSignature_VerifiesEmpty(pubCache, sigValid, indices) ==
    LET keys == PubkeyLookups(pubCache, indices, 1)
    IN  IF ~keys.ok THEN [err |-> ErrNoPubkey, calls |-> keys.calls, verified |-> <<>>]
        ELSE IF ~sigValid
        THEN [err |-> ErrSignature, calls |-> keys.calls \o <<"FastAggregateVerify">>,
              verified |-> <<keys.keys>>]
        ELSE [err |-> NoErr, calls |-> keys.calls \o <<"FastAggregateVerify">>,
              verified |-> <<keys.keys>>]

\* verified holds the key list of each call of the aggregate verifier.
ValidateIndexedAttestationSignature(pubCache, sigValid, indices) ==
    LET keys == PubkeyLookups(pubCache, indices, 1)
    IN  IF ~keys.ok THEN [err |-> ErrNoPubkey, calls |-> keys.calls, verified |-> <<>>]
        ELSE IF Len(keys.keys) <= 0
        THEN [err |-> ErrEmpty, calls |-> keys.calls, verified |-> <<>>]
        ELSE IF ~sigValid
        THEN [err |-> ErrSignature, calls |-> keys.calls \o <<"FastAggregateVerify">>,
              verified |-> <<keys.keys>>]
        ELSE [err |-> NoErr, calls |-> keys.calls \o <<"FastAggregateVerify">>,
              verified |-> <<keys.keys>>]

ValidateIndexedAttestation_SignatureFirst(vals, pubCache, sigValid, indices) ==
    LET sig == ValidateIndexedAttestationSignature(pubCache, sigValid, indices)
        noSig == ValidateIndexedAttestationNoSignature(vals, indices)
    IN  IF sig.err # NoErr THEN [err |-> sig.err, calls |-> <<"GetDomain">> \o sig.calls]
        ELSE [err |-> noSig.err, calls |-> <<"GetDomain">> \o sig.calls \o noSig.calls]

ValidateIndexedAttestation(vals, pubCache, sigValid, indices) ==
    LET noSig == ValidateIndexedAttestationNoSignature(vals, indices)
        sig == ValidateIndexedAttestationSignature(pubCache, sigValid, indices)
    IN  IF noSig.err # NoErr THEN noSig
        ELSE [err |-> sig.err, calls |-> noSig.calls \o <<"GetDomain">> \o sig.calls]

CallValidateIndexedAttestationIndicesSet ==
    /\ pc = "attestation"
    /\ LET r == ValidateIndexedAttestationIndicesSet(attIn.AttestingIndices)
       IN  attOut' = [fn |-> "ValidateIndexedAttestationIndicesSet",
                      err |-> r.err, indices |-> r.indices, calls |-> <<>>]
    /\ UNCHANGED <<validators, epc, finalizedEpoch, prevAtts, currAtts, blockRoots,
                   ctxDone, pc, process, err, loop, failAt, attIn>>

CallValidateIndexedAttestationNoSignature ==
    /\ pc = "attestation"
    /\ LET r == ValidateIndexedAttestationNoSignature(validators, attIn.AttestingIndices)
       IN  attOut' = [fn |-> "ValidateIndexedAttestationNoSignature",
                      err |-> r.err, indices |-> <<>>, calls |-> r.calls]
    /\ UNCHANGED <<validators, epc, finalizedEpoch, prevAtts, currAtts, blockRoots,
                   ctxDone, pc, process, err, loop, failAt, attIn>>

CallValidateIndexedAttestationSignature ==
    /\ pc = "attestation"
    /\ LET r == ValidateIndexedAttestationSignature(attIn.PubkeyCache, attIn.SignatureValid,
                                                    attIn.AttestingIndices)
       IN  attOut' = [fn |-> "ValidateIndexedAttestationSignature",
                      err |-> r.err, indices |-> <<>>, calls |-> r.calls,
                      verified |-> r.verified]
    /\ UNCHANGED <<validators, epc, finalizedEpoch, prevAtts, currAtts, blockRoots,
                   ctxDone, pc, process, err, loop, failAt, attIn>>

CallValidateIndexedAttestation ==
    /\ pc = "attestation"
    /\ LET r == ValidateIndexedAttestation(validators, attIn.PubkeyCache,
                                           attIn.SignatureValid, attIn.AttestingIndices)
       IN  attOut' = [fn |-> "ValidateIndexedAttestation",
                      err |-> r.err, indices |-> <<>>, calls |-> r.calls]
    /\ UNCHANGED <<validators, epc, finalizedEpoch, prevAtts, currAtts, blockRoots,
                   ctxDone, pc, process, err, loop, failAt, attIn>>

NextAtt ==
    \/ CallValidateIndexedAttestationIndicesSet
    \/ CallValidateIndexedAttestationNoSignature
    \/ CallValidateIndexedAttestationSignature
    \/ CallValidateIndexedAttestation

MaxIndex == 5
MinRegistry == 4

NoResult == [fn |-> "none", err |-> NoErr, indices |-> <<>>, calls |-> <<>>]

InitAtt ==
    /\ epc = [CurrentEpoch |-> StartEpoch, PreviousEpoch |-> StartEpoch - 1]
    /\ \E n \in {MinRegistry, MaxIndex + 1} :
          validators = [i \in 0 .. n - 1 |->
                           V(MAX_EFFECTIVE_BALANCE, FALSE, GENESIS_EPOCH, GENESIS_EPOCH,
                             FAR_FUTURE_EPOCH, FAR_FUTURE_EPOCH)]
    /\ finalizedEpoch = GENESIS_EPOCH
    /\ prevAtts = <<>>
    /\ currAtts = <<>>
    /\ blockRoots = [s \in Slots |-> "a"]
    /\ ctxDone = FALSE
    /\ pc = "attestation"
    /\ process = Nil
    /\ err = NoErr
    /\ loop = Nil
    /\ failAt = 0
    /\ attIn \in [AttestingIndices : SeqsUpTo(0 .. MaxIndex, MAX_VALIDATORS_PER_COMMITTEE + 1),
                  PubkeyCache : {0 .. Count(validators) - 1, 0 .. Count(validators) - 2},
                  SignatureValid : BOOLEAN]
    /\ attOut = NoResult

SpecAtt == InitAtt /\ [][NextAtt]_vars

WellFormed(indices) ==
    /\ Len(indices) >= 1
    /\ Len(indices) <= MAX_VALIDATORS_PER_COMMITTEE
    /\ \A i \in 1 .. Len(indices) - 1 : indices[i] < indices[i + 1]

AllInRange(indices) == \A i \in 1 .. Len(indices) : indices[i] < Count(validators)

\* C7: ValidateIndexedAttestationIndicesSet accepts exactly the sequences of
\* 1 to MAX_VALIDATORS_PER_COMMITTEE strictly ascending indices and returns
\* an accepted sequence as it is; [], [5,3] and [3,3] are rejected.
C7_IndicesSet ==
    attOut.fn = "ValidateIndexedAttestationIndicesSet" =>
        /\ (attOut.err = NoErr) <=> WellFormed(attIn.AttestingIndices)
        /\ attOut.err = NoErr => attOut.indices = attIn.AttestingIndices
        /\ attIn.AttestingIndices \in {<<>>, <<5, 3>>, <<3, 3>>} => attOut.err # NoErr

\* A sorted index list with two equal neighbours was rejected.
C7_Witness ==
    /\ attOut.fn = "ValidateIndexedAttestationIndicesSet"
    /\ attIn.AttestingIndices = <<3, 3>>
    /\ attOut.err = ErrDuplicate

\* C8: ValidateIndexedAttestationNoSignature succeeds exactly when the index
\* set is well-formed and every attesting index is below the registry
\* length; [1,3,5] with a registry of 4 is rejected.
C8_NoSignature ==
    attOut.fn = "ValidateIndexedAttestationNoSignature" =>
        /\ (attOut.err = NoErr) <=>
               (WellFormed(attIn.AttestingIndices) /\ AllInRange(attIn.AttestingIndices))
        /\ (attIn.AttestingIndices = <<1, 3, 5>> /\ Count(validators) = 4)
               => attOut.err = ErrOutOfRange

\* Only the last index is out of range.
C8_Witness ==
    /\ attOut.fn = "ValidateIndexedAttestationNoSignature"
    /\ attIn.AttestingIndices = <<1, 3, 5>>
    /\ Count(validators) = 4
    /\ attOut.err = ErrOutOfRange

IsPrefix(a, b) == Len(a) <= Len(b) /\ a = SubSeq(b, 1, Len(a))

\* The calls of a validation that runs all its stages, in order.
AllStages(indices) ==
    <<"IsValidIndex", "GetDomain">> \o [k \in 1 .. Len(indices) |-> "Pubkey"]
        \o <<"FastAggregateVerify">>

\* C9: ValidateIndexedAttestation checks the index set, then the registry
\* bound, then the signature, and stops at the first failure: it neither asks
\* for the signing domain nor invokes the aggregate verifier when the index
\* set is malformed or the last index is out of range, and it returns the
\* error of the first failing stage.
C9_StageOrder ==
    attOut.fn = "ValidateIndexedAttestation" =>
        LET indices == attIn.AttestingIndices
            seen == {attOut.calls[k] : k \in 1 .. Len(attOut.calls)}
        IN  /\ IsPrefix(attOut.calls, AllStages(indices))
            /\ ~WellFormed(indices) =>
                  /\ attOut.calls = <<>>
                  /\ attOut.err \in {ErrIndicesCount, ErrEmpty, ErrNotSorted, ErrDuplicate}
            /\ (WellFormed(indices) /\ ~AllInRange(indices)) =>
                  /\ attOut.calls = <<"IsValidIndex">>
                  /\ attOut.err = ErrOutOfRange
            /\ (WellFormed(indices) /\ AllInRange(indices)) =>
                  /\ "GetDomain" \in seen
                  /\ attOut.err \in {NoErr, ErrNoPubkey, ErrSignature}
                  /\ attOut.err = ErrNoPubkey <=>
                        \E k \in 1 .. Len(indices) : indices[k] \notin attIn.PubkeyCache
                  /\ attOut.err = NoErr => attIn.SignatureValid

\* Every stage would fail: the indices are unsorted, the last index is out
\* of range and has no key, and the signature is invalid.
C9_Witness ==
    /\ attOut.fn = "ValidateIndexedAttestation"
    /\ Len(attIn.AttestingIndices) = 2
    /\ ~IsSorted(attIn.AttestingIndices)
    /\ ~AllInRange(attIn.AttestingIndices)
    /\ attIn.AttestingIndices[2] \notin attIn.PubkeyCache
    /\ ~attIn.SignatureValid
    /\ attOut.err = ErrNotSorted
    /\ attOut.calls = <<>>

(***************************************************************************)
(* The loops of PrepareEpochProcess, one step per poll and per iterator    *)
(* read, with the context cancelled at any moment in between.  The         *)
(* registry and the two attestation lists are represented by their         *)
(* lengths (loop.len) and the EpochProcess under construction by the       *)
(* number of elements each loop has put into it (loop.built).              *)
(***************************************************************************)
ValidatorPollBits == 10
AttestationPollBits == 5

PollBits(phase) == IF phase = "validators" THEN ValidatorPollBits ELSE AttestationPollBits

PollDue_SkipFirst(phase, i) == i > 0 /\ i % (2 ^ PollBits(phase)) = 0

\* i & ((1 << bits) - 1) == 0
PollDue(phase, i) == i % (2 ^ PollBits(phase)) = 0

NextPhase(phase) ==
    CASE phase = "validators" -> "prevAtts"
      [] phase = "prevAtts" -> "currAtts"
      [] phase = "currAtts" -> "returned"

\* return nil, TransitionCancelErr
CancelReturn(lp) ==
    [lp EXCEPT !.phase = "returned",
               !.ret = [out |-> Nil, err |-> TransitionCancelErr]]

\* The top of a loop iteration: the poll of ctx.Done(), when one is due.
LoopTop ==
    /\ pc = "preparing"
    /\ loop.phase # "returned"
    /\ loop.at = "top"
    /\ loop' = IF PollDue(loop.phase, loop.i)
               THEN IF ctxDone THEN CancelReturn(loop)
                    ELSE [loop EXCEPT !.at = "read", !.lastPoll = <<loop.phase, loop.i>>]
               ELSE [loop EXCEPT !.at = "read"]
    /\ pc' = IF loop'.phase = "returned" THEN "returned" ELSE pc
    /\ UNCHANGED <<validators, epc, finalizedEpoch, prevAtts, currAtts, blockRoots,
                   ctxDone, process, err, failAt, attIn, attOut>>

\* The iterator read and the body of the iteration, or the end of the loop.
IterNext ==
    /\ pc = "preparing"
    /\ loop.phase # "returned"
    /\ loop.at = "read"
    /\ loop' = IF loop.i < loop.len[loop.phase]
               THEN [loop EXCEPT !.at = "top", !.i = loop.i + 1,
                                 !.built[loop.phase] = @ + 1]
               ELSE IF NextPhase(loop.phase) = "returned"
               THEN [loop EXCEPT !.phase = "returned",
                                 !.ret = [out |-> "EpochProcess", err |-> NoErr]]
               ELSE [loop EXCEPT !.phase = NextPhase(loop.phase), !.at = "top", !.i = 0]
    /\ pc' = IF loop'.phase = "returned" THEN "returned" ELSE pc
    /\ UNCHANGED <<validators, epc, finalizedEpoch, prevAtts, currAtts, blockRoots,
                   ctxDone, process, err, failAt, attIn, attOut>>

NextPoll == LoopTop \/ IterNext \/ Cancel

PollRounds == 1

\* Lengths around the multiples of the polling interval.
PollLengths(bits) == {0, 1} \cup UNION {{k * (2 ^ bits), k * (2 ^ bits) + 1} : k \in 1 .. PollRounds}

PollPhases == {"validators", "prevAtts", "currAtts"}

InitPoll ==
    /\ epc = [CurrentEpoch |-> StartEpoch, PreviousEpoch |-> StartEpoch - 1]
    /\ validators = <<>>
    /\ finalizedEpoch = GENESIS_EPOCH
    /\ prevAtts = <<>>
    /\ currAtts = <<>>
    /\ blockRoots = [s \in Slots |-> "a"]
    /\ ctxDone \in BOOLEAN
    /\ pc = "preparing"
    /\ process = Nil
    /\ err = NoErr
    /\ failAt = 0
    /\ attIn = Nil
    /\ attOut = Nil
    /\ \E nv \in PollLengths(ValidatorPollBits), np, nc \in PollLengths(AttestationPollBits) :
          loop = [phase |-> "validators", at |-> "top", i |-> 0,
                  lastPoll |-> <<"none", 0>>,
                  len |-> [ph \in PollPhases |->
                              CASE ph = "validators" -> nv
                                [] ph = "prevAtts" -> np
                                [] ph = "currAtts" -> nc],
                  built |-> [ph \in PollPhases |-> 0],
                  ret |-> [out |-> Nil, err |-> NoErr]]

SpecPoll == InitPoll /\ [][NextPoll]_vars

\* A poll is due before validator i when i is a multiple of 1024 and before
\* attestation i when i is a multiple of 32.
C10_Due ==
    \/ loop.phase = "validators" /\ loop.i % 1024 = 0
    \/ loop.phase \in {"prevAtts", "currAtts"} /\ loop.i % 32 = 0

C10_PolledBeforeRead ==
    (pc = "preparing" /\ loop.at = "read" /\ C10_Due) => loop.lastPoll = <<loop.phase, loop.i>>

C10_NoPartialResult ==
    pc = "returned" =>
        /\ loop.ret.err = TransitionCancelErr => loop.ret.out = Nil
        /\ loop.ret.out # Nil =>
              /\ loop.ret.err = NoErr
              /\ \A ph \in PollPhases : loop.built[ph] = loop.len[ph]

C10_CancelSeenAtPoll ==
    (pc = "preparing" /\ loop.at = "top" /\ C10_Due /\ ctxDone)
        => (pc' = "returned" /\ loop'.ret = [out |-> Nil, err |-> TransitionCancelErr])

\* C10: PrepareEpochProcess polls the cancellation signal before it reads
\* validator i when i is a multiple of 1024 and before it reads attestation i
\* of either pass when i is a multiple of 32, the read that finds the end of
\* the list included; a poll that finds the signal set makes it return
\* TransitionCancelErr with a nil EpochProcess, and an EpochProcess is
\* returned only complete.
C10_CancellationPolls ==
    /\ [](C10_PolledBeforeRead /\ C10_NoPartialResult)
    /\ [][C10_CancelSeenAtPoll]_vars

\* The call was cancelled at the poll before the read that would have found
\* the end of a registry of 1024 validators.
C10_Witness ==
    /\ pc = "returned"
    /\ loop.ret = [out |-> Nil, err |-> TransitionCancelErr]
    /\ loop.len["validators"] = 1024
    /\ loop.built["validators"] = 1024
    /\ loop.lastPoll = <<"validators", 0>>

(***************************************************************************)
(* Failing accesses.  The registry holds validators to eject, to make      *)
(* eligible and to activate, enough of them for a churn limit of two, and  *)
(* any one access of ProcessEpochRegistryUpdates may be the one that       *)
(* fails: a registry of n validators is accessed at most 3n + 3 times.     *)
(***************************************************************************)
FaultStages(c) ==
    {V(EJECTION_BALANCE, FALSE, GENESIS_EPOCH, GENESIS_EPOCH, FAR_FUTURE_EPOCH,
       FAR_FUTURE_EPOCH),
     V(MAX_EFFECTIVE_BALANCE, FALSE, c - 1, FAR_FUTURE_EPOCH, FAR_FUTURE_EPOCH,
       FAR_FUTURE_EPOCH),
     V(MAX_EFFECTIVE_BALANCE, FALSE, FAR_FUTURE_EPOCH, FAR_FUTURE_EPOCH, FAR_FUTURE_EPOCH,
       FAR_FUTURE_EPOCH)}

InitFault ==
    /\ epc = [CurrentEpoch |-> StartEpoch, PreviousEpoch |-> StartEpoch - 1]
    /\ validators \in Registries(FaultStages(StartEpoch), MaxValidators + 2)
    /\ finalizedEpoch \in {StartEpoch - 2, StartEpoch - 1}
    /\ prevAtts = <<>>
    /\ currAtts = <<>>
    /\ blockRoots = [s \in Slots |-> "a"]
    /\ ctxDone = FALSE
    /\ pc = "idle"
    /\ process = Nil
    /\ err = NoErr
    /\ loop = Nil
    /\ failAt \in 0 .. 3 * Count(validators) + 3
    /\ attIn = Nil
    /\ attOut = Nil

SpecFault == InitFault /\ [][Next]_vars

\* The registry as PrepareEpochProcess read it.
SnapshotRegistry == [i \in DOMAIN process.Statuses |-> Snapshot(i)]

\* The registry a run without failure leaves.
FullUpdate == RegistryUpdates(SnapshotRegistry, process, epc, finalizedEpoch)

\* Validator i is entry k <= n of queue q and its write, access number
\* first + stride * k, comes before the failing access.
WrittenBefore(q, n, i, first, stride) ==
    \E k \in 1 .. n : q[k] = i /\ first + stride * k < failAt

\* C11: when an access of ProcessEpochRegistryUpdates fails, the call
\* returns that error, every write made before the failing access is in the
\* registry, and no field that a later access would have written, nor any
\* other field, has changed.
C11_FailureKeepsEarlierWrites ==
    pc = "failed" =>
        LET ej == process.IndicesToEject
            el == process.IndicesToSetActivationEligibility
            ac == process.IndicesToMaybeActivate
            nAct == Cardinality({i \in DOMAIN FullUpdate :
                        FullUpdate[i].ActivationEpoch # Snapshot(i).ActivationEpoch})
            Kept(i, f, written) ==
                validators[i][f] = IF written THEN FullUpdate[i][f] ELSE Snapshot(i)[f]
        IN  /\ err = AccessErr
            /\ \A i \in DOMAIN validators :
                  /\ Kept(i, "ExitEpoch", WrittenBefore(ej, Len(ej), i, 0, 3))
                  /\ Kept(i, "WithdrawableEpoch", WrittenBefore(ej, Len(ej), i, 1, 3))
                  /\ Kept(i, "ActivationEligibilityEpoch",
                          WrittenBefore(el, Len(el), i, 1 + 3 * Len(ej), 2))
                  /\ Kept(i, "ActivationEpoch",
                          WrittenBefore(ac, nAct, i, 3 + 3 * Len(ej) + 2 * Len(el), 2))
                  /\ validators[i].EffectiveBalance = Snapshot(i).EffectiveBalance
                  /\ validators[i].Slashed = Snapshot(i).Slashed

\* The read of the second validator to activate failed: the ejections and
\* the first activation are in the registry, the second candidate, which the
\* churn limit and the finalized epoch admit, is as it was.
C11_Witness ==
    /\ pc = "failed"
    /\ process.ChurnLimit >= 2
    /\ \E i \in Ejected :
          /\ validators[i].ExitEpoch # FAR_FUTURE_EPOCH
          /\ validators[i].WithdrawableEpoch # FAR_FUTURE_EPOCH
    /\ Len(process.IndicesToMaybeActivate) >= 2
    /\ LET a == process.IndicesToMaybeActivate[1]
           b == process.IndicesToMaybeActivate[2]
       IN  /\ validators[a].ActivationEpoch = ComputeActivationExitEpoch(epc.CurrentEpoch)
           /\ Snapshot(b).ActivationEligibilityEpoch <= finalizedEpoch
           /\ validators[b] = Snapshot(b)

(***************************************************************************)
(* The snapshot of the registry in the EpochProcess.                       *)
(***************************************************************************)
\* C12, first part: ProcessEpochRegistryUpdates leaves the EpochProcess, its
\* Statuses and its queues, as PrepareEpochProcess returned it.
C12_ProcessKept == pc = "prepared" => process' = process

\* C12, second part: a validator whose activation_eligibility_epoch the
\* eligibility pass of this transition has set keeps the activation epoch
\* it had.
C12_EligibleNotActivated ==
    pc \in {"updated", "failed"} =>
        \A i \in DOMAIN validators :
            (/\ Snapshot(i).ActivationEligibilityEpoch = FAR_FUTURE_EPOCH
             /\ validators[i].ActivationEligibilityEpoch # FAR_FUTURE_EPOCH)
            => validators[i].ActivationEpoch = Snapshot(i).ActivationEpoch

\* C12: the snapshot is taken once: ProcessEpochRegistryUpdates does not
\* change the EpochProcess, and a validator made eligible in a transition is
\* not activated in that transition.
C12_SnapshotOnce == [][C12_ProcessKept]_vars /\ []C12_EligibleNotActivated

\* One validator was made eligible and another one activated in the same
\* transition, and the snapshot still shows both as they were.
C12_Witness ==
    /\ pc = "updated"
    /\ \E i, j \in DOMAIN validators :
          /\ Snapshot(i).ActivationEligibilityEpoch = FAR_FUTURE_EPOCH
          /\ validators[i].ActivationEligibilityEpoch = epc.CurrentEpoch + 1
          /\ validators[i].ActivationEpoch = FAR_FUTURE_EPOCH
          /\ Snapshot(j).ActivationEpoch = FAR_FUTURE_EPOCH
          /\ validators[j].ActivationEpoch = ComputeActivationExitEpoch(epc.CurrentEpoch)

\* C13: after PrepareEpochProcess and a successful ProcessEpochRegistryUpdates,
\* the activation_eligibility_epoch of a validator is current_epoch + 1 if
\* the snapshot had it unset with an effective balance of
\* MAX_EFFECTIVE_BALANCE, and is the snapshot's for every other validator,
\* however many validators that makes.
C13_EligibilitySet ==
    pc = "updated" =>
        \A i \in DOMAIN validators :
            validators[i].ActivationEligibilityEpoch =
                IF /\ Snapshot(i).ActivationEligibilityEpoch = FAR_FUTURE_EPOCH
                   /\ Snapshot(i).EffectiveBalance = MAX_EFFECTIVE_BALANCE
                THEN epc.CurrentEpoch + 1
                ELSE Snapshot(i).ActivationEligibilityEpoch

\* More validators than the churn limit were made eligible at once, next to
\* one that stays unset for its balance.
C13_Witness ==
    /\ pc = "updated"
    /\ Cardinality({i \in DOMAIN validators :
                       /\ Snapshot(i).ActivationEligibilityEpoch = FAR_FUTURE_EPOCH
                       /\ validators[i].ActivationEligibilityEpoch = epc.CurrentEpoch + 1})
          > process.ChurnLimit
    /\ \E i \in DOMAIN validators :
          /\ Snapshot(i).EffectiveBalance # MAX_EFFECTIVE_BALANCE
          /\ validators[i].ActivationEligibilityEpoch = FAR_FUTURE_EPOCH

(***************************************************************************)
(* Determinism.  Every step of the two functions is a function of its      *)
(* inputs, except the unstable sort of the maybe-activate queue: two runs  *)
(* on the same inputs may differ exactly where sort.Slice may.             *)
(***************************************************************************)
\* The EpochProcess of a run in which sort.Slice returned arrangement p.
RunWithSort(p) == [process EXCEPT !.IndicesToMaybeActivate = p]

\* C14: every run of PrepareEpochProcess on the inputs of this transition
\* returns the same EpochProcess, and every run of
\* ProcessEpochRegistryUpdates after it leaves the same registry.
C14_Determinism ==
    /\ pc = "prepared" =>
          \A p \in SortSliceOutcomes(process.Statuses, process.IndicesToMaybeActivate) :
              RunWithSort(p) = process
    /\ pc = "updated" =>
          \A p \in SortSliceOutcomes(process.Statuses, process.IndicesToMaybeActivate) :
              RegistryUpdates(SnapshotRegistry, RunWithSort(p), epc, finalizedEpoch)
                  = validators

\* The registry was updated from a queue of three candidates, two of them
\* with the same eligibility epoch, that the sort had to reorder.
C14_Witness ==
    /\ pc = "updated"
    /\ Len(process.IndicesToMaybeActivate) >= 3
    /\ \E k \in 1 .. Len(process.IndicesToMaybeActivate) - 1 :
          /\ process.IndicesToMaybeActivate[k] > process.IndicesToMaybeActivate[k + 1]
    /\ \E i, j \in SeqSet(process.IndicesToMaybeActivate) :
          /\ i # j
          /\ Snapshot(i).ActivationEligibilityEpoch = Snapshot(j).ActivationEligibilityEpoch
          /\ Snapshot(i).ActivationEligibilityEpoch <= finalizedEpoch

(***************************************************************************)
(* Pass 1 of PrepareEpochProcess on registries with slashed validators:    *)
(* slashed early or late enough for the slashings epoch of the transition  *)
(* to be, or not to be, their withdrawable epoch.                          *)
(***************************************************************************)
SlashedOnes(c) ==
    {V(MAX_EFFECTIVE_BALANCE, TRUE, GENESIS_EPOCH, GENESIS_EPOCH,
       ComputeActivationExitEpoch(c - 1), wd) :
        wd \in {SlashingsEpoch(c), SlashingsEpoch(c) + 1}}

InitSlashed ==
    /\ epc = [CurrentEpoch |-> StartEpoch, PreviousEpoch |-> StartEpoch - 1]
    /\ validators \in Registries(RegistryStages(StartEpoch) \cup SlashedOnes(StartEpoch),
                                 MaxValidators - 1)
    /\ finalizedEpoch = StartEpoch - 1
    /\ prevAtts = <<>>
    /\ currAtts = <<>>
    /\ blockRoots = [s \in Slots |-> "a"]
    /\ InitIdle

SpecSlashed == InitSlashed /\ [][Next]_vars

\* C15 as stated: a slashed validator whose withdrawable epoch is the
\* slashings epoch is queued in IndicesToSlash, and every validator that is
\* not queued is marked UnslashedAttester.
C15_ElseUnslashed ==
    pc = "prepared" =>
        \A i \in DOMAIN process.Statuses :
            /\ QueueToSlash(Snapshot(i), epc.CurrentEpoch)
                  => i \in SeqSet(process.IndicesToSlash)
            /\ i \notin SeqSet(process.IndicesToSlash)
                  => UnslashedAttester \in process.Statuses[i].Flags

\* C15, amended: IndicesToSlash holds exactly the slashed validators whose
\* withdrawable epoch is current_epoch + EPOCHS_PER_SLASHINGS_VECTOR / 2,
\* and UnslashedAttester marks exactly the validators that are not slashed.
C15_SlashQueueAndUnslashedFlag ==
    pc = "prepared" =>
        \A i \in DOMAIN process.Statuses :
            /\ i \in SeqSet(process.IndicesToSlash)
                  <=> (/\ Snapshot(i).Slashed
                       /\ Snapshot(i).WithdrawableEpoch
                            = epc.CurrentEpoch + (EPOCHS_PER_SLASHINGS_VECTOR \div 2))
            /\ UnslashedAttester \in process.Statuses[i].Flags <=> ~Snapshot(i).Slashed

\* A slashed validator in the queue, a slashed one outside it and without
\* the mark, and one that is not slashed.
C15_Witness ==
    /\ pc = "prepared"
    /\ \E i, j, k \in DOMAIN process.Statuses :
          /\ Snapshot(i).Slashed /\ i \in SeqSet(process.IndicesToSlash)
          /\ Snapshot(j).Slashed /\ j \notin SeqSet(process.IndicesToSlash)
          /\ UnslashedAttester \notin process.Statuses[j].Flags
          /\ ~Snapshot(k).Slashed /\ UnslashedAttester \in process.Statuses[k].Flags

\* C16: after a successful PrepareEpochProcess, ActiveValidators is the number
\* of validators with activation_epoch <= current_epoch < exit_epoch, and
\* TotalActiveStake is the sum of their effective balances, raised to the
\* floor of EFFECTIVE_BALANCE_INCREMENT.
C16_ActiveCountInResult ==
    pc = "prepared" =>
        LET active == {i \in DOMAIN process.Statuses :
                          /\ Snapshot(i).ActivationEpoch <= epc.CurrentEpoch
                          /\ epc.CurrentEpoch < Snapshot(i).ExitEpoch}
            stake == SumBalances(process.Statuses, active)
        IN  /\ process.ActiveValidators = Cardinality(active)
            /\ process.TotalActiveStake
                  = IF stake < EFFECTIVE_BALANCE_INCREMENT
                    THEN EFFECTIVE_BALANCE_INCREMENT ELSE stake

\* The part of C16 that the code keeps: the total active stake and the
\* churn limit, which is computed from the count of pass 1.
C16_ActiveStakeAndChurn ==
    pc = "prepared" =>
        LET active == {i \in DOMAIN process.Statuses :
                          /\ Snapshot(i).ActivationEpoch <= epc.CurrentEpoch
                          /\ epc.CurrentEpoch < Snapshot(i).ExitEpoch}
            stake == SumBalances(process.Statuses, active)
        IN  /\ process.TotalActiveStake
                  = IF stake < EFFECTIVE_BALANCE_INCREMENT
                    THEN EFFECTIVE_BALANCE_INCREMENT ELSE stake
            /\ process.ChurnLimit = GetChurnLimit(Cardinality(active))

(***************************************************************************)
(* The slashing condition of two attestation data, as the attester         *)
(* slashing validation calls it on (Attestation1.Data, Attestation2.Data). *)
(***************************************************************************)
MaxAttEpoch == 3

\* Two different data with the same target epoch.
IsDoubleVote(a, b) == a # b /\ a.Target.Epoch = b.Target.Epoch

\* a surrounds b.
IsSurroundVote(a, b) ==
    a.Source.Epoch < b.Source.Epoch /\ b.Target.Epoch < a.Target.Epoch

IsSlashableAttestationData_EitherSurrounds(a, b) ==
    IsSurroundVote(a, b) \/ IsSurroundVote(b, a) \/ IsDoubleVote(a, b)

IsSlashableAttestationData(a, b) == IsSurroundVote(a, b) \/ IsDoubleVote(a, b)

CallIsSlashableAttestationData ==
    /\ pc = "slashable"
    /\ attOut = NoResult
    /\ attOut' = [fn |-> "IsSlashableAttestationData",
                  result |-> IsSlashableAttestationData(attIn.Data1, attIn.Data2)]
    /\ UNCHANGED <<validators, epc, finalizedEpoch, prevAtts, currAtts, blockRoots,
                   ctxDone, pc, process, err, loop, failAt, attIn>>

AttestationDatas ==
    [Slot : {0}, Index : {0}, BeaconBlockRoot : Roots,
     Source : [Epoch : 0 .. MaxAttEpoch, Root : {"a"}],
     Target : [Epoch : 0 .. MaxAttEpoch, Root : Roots]]

InitSlashable ==
    /\ epc = [CurrentEpoch |-> StartEpoch, PreviousEpoch |-> StartEpoch - 1]
    /\ validators = <<>>
    /\ finalizedEpoch = GENESIS_EPOCH
    /\ prevAtts = <<>>
    /\ currAtts = <<>>
    /\ blockRoots = [s \in Slots |-> "a"]
    /\ ctxDone = FALSE
    /\ pc = "slashable"
    /\ process = Nil
    /\ err = NoErr
    /\ loop = Nil
    /\ failAt = 0
    /\ attIn \in [Data1 : AttestationDatas, Data2 : AttestationDatas]
    /\ attOut = NoResult

SpecSlashable == InitSlashable /\ [][CallIsSlashableAttestationData]_vars

\* Some field of the two data differs.
DataDiffer(a, b) ==
    \/ a.Slot # b.Slot
    \/ a.Index # b.Index
    \/ a.BeaconBlockRoot # b.BeaconBlockRoot
    \/ a.Source.Epoch # b.Source.Epoch
    \/ a.Source.Root # b.Source.Root
    \/ a.Target.Epoch # b.Target.Epoch
    \/ a.Target.Root # b.Target.Root

JoinMaxIndex == 9
JoinMaxLen == 4

RECURSIVE ZigZagJoin_MovesOther(_, _, _, _)
ZigZagJoin_MovesOther(a, b, i, j) ==
    IF i > Len(a) \/ j > Len(b) THEN <<>>
    ELSE IF a[i] = b[j] THEN <<a[i]>> \o ZigZagJoin_MovesOther(a, b, i + 1, j + 1)
    ELSE IF a[i] < b[j] THEN ZigZagJoin_MovesOther(a, b, i + 1, j + 1)
    ELSE ZigZagJoin_MovesOther(a, b, i, j + 1)

RECURSIVE ZigZagJoin(_, _, _, _)
ZigZagJoin(a, b, i, j) ==
    IF i > Len(a) \/ j > Len(b) THEN <<>>
    ELSE IF a[i] = b[j] THEN <<a[i]>> \o ZigZagJoin(a, b, i + 1, j + 1)
    ELSE IF a[i] < b[j] THEN ZigZagJoin(a, b, i + 1, j)
    ELSE ZigZagJoin(a, b, i, j + 1)

\* Lines 41-44: the indices the join hands to onJoin, appended to slashable.
CallZigZagJoin ==
    /\ pc = "join"
    /\ attOut = NoResult
    /\ attOut' = [fn |-> "ZigZagJoin",
                  slashable |-> ZigZagJoin(attIn.Indices1, attIn.Indices2, 1, 1)]
    /\ UNCHANGED <<validators, epc, finalizedEpoch, prevAtts, currAtts, blockRoots,
                   ctxDone, pc, process, err, loop, failAt, attIn>>

StrictlyAscending(q) == \A k \in 1 .. Len(q) - 1 : q[k] < q[k + 1]

\* The index lists that ValidateIndexedAttestationIndicesSet lets through,
\* and the empty one.
IndexLists == {q \in SeqsUpTo(1 .. JoinMaxIndex, JoinMaxLen) : StrictlyAscending(q)}

InitJoin ==
    /\ epc = [CurrentEpoch |-> StartEpoch, PreviousEpoch |-> StartEpoch - 1]
    /\ validators = <<>>
    /\ finalizedEpoch = GENESIS_EPOCH
    /\ prevAtts = <<>>
    /\ currAtts = <<>>
    /\ blockRoots = [s \in Slots |-> "a"]
    /\ ctxDone = FALSE
    /\ pc = "join"
    /\ process = Nil
    /\ err = NoErr
    /\ loop = Nil
    /\ failAt = 0
    /\ attIn \in [Indices1 : IndexLists, Indices2 : IndexLists]
    /\ attOut = NoResult

SpecJoin == InitJoin /\ [][CallZigZagJoin]_vars

\* C18: the join of two strictly ascending lists holds exactly their common
\* indices, each once and in ascending order; [1,4,7,9] and [2,4,8,9] give
\* [4,9].
C18_ZigZagJoin ==
    attOut.fn = "ZigZagJoin" =>
        /\ SeqSet(attOut.slashable) = SeqSet(attIn.Indices1) \cap SeqSet(attIn.Indices2)
        /\ StrictlyAscending(attOut.slashable)
        /\ (attIn.Indices1 = <<1, 4, 7, 9>> /\ attIn.Indices2 = <<2, 4, 8, 9>>)
              => attOut.slashable = <<4, 9>>

C18_Witness ==
    /\ attOut.fn = "ZigZagJoin"
    /\ attIn.Indices1 = <<1, 4, 7, 9>>
    /\ attIn.Indices2 = <<2, 4, 8, 9>>
    /\ attOut.slashable = <<4, 9>>

(***************************************************************************)
(* InitiateValidatorExit, as block processing calls it during the epoch,   *)
(* before the epoch transition: the exit queue it builds is the registry   *)
(* the ejection pass then works on.                                        *)
(***************************************************************************)
ExitQueueScanStep_NewerUncounted(cur, valExit) ==
    IF valExit = FAR_FUTURE_EPOCH THEN cur
    ELSE IF valExit = cur.exitQueueEnd
         THEN [cur EXCEPT !.exitQueueEndChurn = @ + 1]
         ELSE IF valExit > cur.exitQueueEnd
              THEN [exitQueueEnd |-> valExit, exitQueueEndChurn |-> 0]
              ELSE cur

\* Lines 231-258: one step of the scan of the registry; cur is
\* [exitQueueEnd, exitQueueEndChurn].
ExitQueueScanStep(cur, valExit) ==
    IF valExit = FAR_FUTURE_EPOCH THEN cur
    ELSE IF valExit = cur.exitQueueEnd
         THEN [cur EXCEPT !.exitQueueEndChurn = @ + 1]
         ELSE IF valExit > cur.exitQueueEnd
              THEN [exitQueueEnd |-> valExit, exitQueueEndChurn |-> 1]
              ELSE cur

RECURSIVE ExitQueueScan(_, _, _)
ExitQueueScan(vals, i, cur) ==
    IF i >= Count(vals) THEN cur
    ELSE ExitQueueScan(vals, i + 1, ExitQueueScanStep(cur, vals[i].ExitEpoch))

InitiateValidatorExitOut_NoEarlyReturn(vals, index, currentEpoch, churnLimit) ==
    LET scan == ExitQueueScan(vals, 0,
                    [exitQueueEnd |-> ComputeActivationExitEpoch(currentEpoch),
                     exitQueueEndChurn |-> 0])
        exitEp == IF scan.exitQueueEndChurn >= churnLimit
                  THEN scan.exitQueueEnd + 1 ELSE scan.exitQueueEnd
    IN  [vals EXCEPT ![index].ExitEpoch = exitEp,
                     ![index].WithdrawableEpoch =
                         exitEp + MIN_VALIDATOR_WITHDRAWABILITY_DELAY]

\* The registry after InitiateValidatorExit(index) at currentEpoch.
InitiateValidatorExitOut(vals, index, currentEpoch, churnLimit) ==
    IF vals[index].ExitEpoch # FAR_FUTURE_EPOCH THEN vals
    ELSE LET scan == ExitQueueScan(vals, 0,
                        [exitQueueEnd |-> ComputeActivationExitEpoch(currentEpoch),
                         exitQueueEndChurn |-> 0])
             exitEp == IF scan.exitQueueEndChurn >= churnLimit
                       THEN scan.exitQueueEnd + 1 ELSE scan.exitQueueEnd
         IN  [vals EXCEPT ![index].ExitEpoch = exitEp,
                          ![index].WithdrawableEpoch =
                              exitEp + MIN_VALIDATOR_WITHDRAWABILITY_DELAY]

\* len(epc.CurrentEpoch.ActiveIndices)
ActiveIndicesCount(vals, currentEpoch) ==
    Cardinality({i \in DOMAIN vals : IsActive(vals[i], currentEpoch)})

\* attOut keeps the index of the call and whether the call before it was
\* for the same index.
InitiateValidatorExit ==
    /\ pc = "idle"
    /\ \E index \in DOMAIN validators :
          /\ validators' = InitiateValidatorExitOut(
                               validators, index, epc.CurrentEpoch,
                               GetChurnLimit(ActiveIndicesCount(validators, epc.CurrentEpoch)))
          /\ attOut' = [fn |-> "InitiateValidatorExit", index |-> index, err |-> NoErr,
                        repeat |-> (attOut.fn = "InitiateValidatorExit"
                                    /\ attOut.index = index)]
    /\ UNCHANGED <<epc, finalizedEpoch, prevAtts, currAtts, blockRoots, ctxDone, pc,
                   process, err, loop, failAt, attIn>>

NextExits == Next \/ InitiateValidatorExit

\* Every validator is active with no exit initiated; some are at the
\* ejection balance.
InitExits ==
    /\ epc = [CurrentEpoch |-> StartEpoch, PreviousEpoch |-> StartEpoch - 1]
    /\ validators \in Registries(ActiveOnes(StartEpoch), MaxValidators)
    /\ finalizedEpoch = StartEpoch - 1
    /\ prevAtts = <<>>
    /\ currAtts = <<>>
    /\ blockRoots = [s \in Slots |-> "a"]
    /\ ctxDone = FALSE
    /\ pc = "idle"
    /\ process = Nil
    /\ err = NoErr
    /\ loop = Nil
    /\ failAt = 0
    /\ attIn = Nil
    /\ attOut = NoResult

SpecExits == InitExits /\ [][NextExits]_vars

\* The registry after InitiateValidatorExit for each index of q in order.
RECURSIVE InitiateValidatorExitEach(_, _, _, _, _)
InitiateValidatorExitEach(vals, q, k, currentEpoch, churnLimit) ==
    IF k > Len(q) THEN vals
    ELSE InitiateValidatorExitEach(
             InitiateValidatorExitOut(vals, q[k], currentEpoch, churnLimit),
             q, k + 1, currentEpoch, churnLimit)

\* C19: the ejection pass assigns the exit and withdrawable epochs that
\* InitiateValidatorExit, called for each index of IndicesToEject in order
\* on the registry of the start of the transition and with the same churn
\* limit, assigns.
C19_EjectionAsInitiateExit ==
    pc = "updated" =>
        LET byExit == InitiateValidatorExitEach(SnapshotRegistry, process.IndicesToEject, 1,
                                                epc.CurrentEpoch, process.ChurnLimit)
        IN  \A i \in DOMAIN validators :
                /\ validators[i].ExitEpoch = byExit[i].ExitEpoch
                /\ validators[i].WithdrawableEpoch = byExit[i].WithdrawableEpoch

\* C20: after the ejection pass, every exit epoch assigned to an ejected
\* validator is the exit epoch of at most ChurnLimit validators of the
\* whole registry, those that had it before the transition included.
C20_RegistryChurn ==
    pc = "updated" =>
        \A e \in {validators[i].ExitEpoch : i \in Ejected} :
            Cardinality({i \in DOMAIN validators : validators[i].ExitEpoch = e})
                <= process.ChurnLimit

(***************************************************************************)
(* The ejection pass, position by position of IndicesToEject.              *)
(***************************************************************************)
\* The value of the running churn counter when the loop reaches position k:
\* it starts at ExitQueueEndChurn, gains one per ejection and restarts from
\* zero on reaching ChurnLimit.
ChurnCounterAt(k) == (process.ExitQueueEndChurn + k - 1) % process.ChurnLimit

\* The number of times the counter reached ChurnLimit before position k.
AdvancesBefore(k) == (process.ExitQueueEndChurn + k - 1) \div process.ChurnLimit

\* C21: in the ejection pass every ejected validator gets withdrawable epoch
\* = exit epoch + MIN_VALIDATOR_WITHDRAWABILITY_DELAY; along IndicesToEject
\* the exit epochs start at ExitQueueEnd, never decrease, and step by exactly
\* one from a position to the next when the churn counter, started at
\* ExitQueueEndChurn, reaches ChurnLimit at that position, and by nothing
\* otherwise.
C21_EjectionEpochs ==
    pc = "updated" =>
        LET q == process.IndicesToEject
            exit(k) == validators[q[k]].ExitEpoch
        IN  /\ \A k \in 1 .. Len(q) :
                  /\ validators[q[k]].WithdrawableEpoch =
                         exit(k) + MIN_VALIDATOR_WITHDRAWABILITY_DELAY
                  /\ exit(k) = process.ExitQueueEnd + AdvancesBefore(k)
            /\ Len(q) > 0 => exit(1) = process.ExitQueueEnd
            /\ \A k \in 1 .. Len(q) - 1 :
                  /\ exit(k) <= exit(k + 1)
                  /\ exit(k + 1) = exit(k) + (IF ChurnCounterAt(k) + 1 = process.ChurnLimit
                                              THEN 1 ELSE 0)

\* Three ejections at churn limit 2 behind one exit already queued at the
\* exit-queue end: the first fills the epoch, the next two share the following.
C21_Witness ==
    /\ pc = "updated"
    /\ process.ChurnLimit = 2
    /\ process.ExitQueueEndChurn = 1
    /\ Len(process.IndicesToEject) = 3
    /\ validators[process.IndicesToEject[1]].ExitEpoch = process.ExitQueueEnd
    /\ validators[process.IndicesToEject[2]].ExitEpoch = process.ExitQueueEnd + 1
    /\ validators[process.IndicesToEject[3]].ExitEpoch = process.ExitQueueEnd + 1

(***************************************************************************)
(* The activation queue under a churn limit above the minimum: registries  *)
(* that start with enough active validators, or with none, followed by     *)
(* pending validators whose eligibility epochs lie on both sides of the    *)
(* finalized epoch, in any registry order.                                 *)
(***************************************************************************)
ActivesForChurn(limit) == limit * CHURN_LIMIT_QUOTIENT

QueueRegistries(c, actives, n) ==
    {[i \in 0 .. actives + Count(r) - 1 |->
         IF i < actives
         THEN V(MAX_EFFECTIVE_BALANCE, FALSE, GENESIS_EPOCH, GENESIS_EPOCH,
                FAR_FUTURE_EPOCH, FAR_FUTURE_EPOCH)
         ELSE r[i - actives]] : r \in Registries(Pending(c), n)}

InitQueue ==
    /\ epc = [CurrentEpoch |-> StartEpoch, PreviousEpoch |-> StartEpoch - 1]
    /\ validators \in QueueRegistries(StartEpoch, 0, MaxValidators - 1)
                      \cup QueueRegistries(StartEpoch, ActivesForChurn(2), MaxValidators - 1)
    /\ finalizedEpoch \in {StartEpoch - 2, StartEpoch - 1}
    /\ prevAtts = <<>>
    /\ currAtts = <<>>
    /\ blockRoots = [s \in Slots |-> "a"]
    /\ InitIdle

SpecQueue == InitQueue /\ [][Next]_vars

\* The candidates the walk would activate if it looked at each of the first
\* ChurnLimit entries of the queue on its own.
FinalizedAmongFirst ==
    LET q == process.IndicesToMaybeActivate
        n == IF Len(q) > process.ChurnLimit THEN process.ChurnLimit ELSE Len(q)
    IN  {q[k] : k \in {j \in 1 .. n :
                          Snapshot(q[j]).ActivationEligibilityEpoch <= finalizedEpoch}}

\* C22: the validators ProcessEpochRegistryUpdates activates are exactly the
\* entries among the first ChurnLimit of IndicesToMaybeActivate, as
\* PrepareEpochProcess queued them, whose snapshot eligibility epoch is not
\* after the finalized epoch: the stop at the first unfinalized candidate
\* leaves out none of them.
C22_EarlyStopLosesNothing ==
    pc = "updated" => Activated = FinalizedAmongFirst

\* The walk stopped at the first entry with a second candidate still within
\* the churn limit, one that stands before it in the registry.
C22_Witness ==
    /\ pc = "updated"
    /\ process.ChurnLimit >= 2
    /\ Len(process.IndicesToMaybeActivate) >= 2
    /\ LET q == process.IndicesToMaybeActivate
       IN  /\ Snapshot(q[1]).ActivationEligibilityEpoch > finalizedEpoch
           /\ Snapshot(q[2]).ActivationEligibilityEpoch
                  > Snapshot(q[1]).ActivationEligibilityEpoch
           /\ q[2] < q[1]

(***************************************************************************)
(* The earliest inclusion.  The pending attestations of the previous and   *)
(* of the current epoch come with several inclusion delays and proposers;  *)
(* at the genesis epoch the previous epoch is the current epoch and there  *)
(* are no previous-epoch records yet.                                      *)
(***************************************************************************)
InclusionDelays == {1, 2}

\* The records of the committee of the first slot of the epoch.
InclusionAttestations(epoch, count, delays, proposers) ==
    {att \in PendingAttestations(epoch, count, delays, proposers) :
        /\ att.Data.Slot = EpochStartSlot(epoch)
        /\ att.Data.BeaconBlockRoot = "a"
        /\ att.Data.Target.Root = "a"}

InitInclusion ==
    /\ epc \in {[CurrentEpoch |-> StartEpoch, PreviousEpoch |-> StartEpoch - 1],
                [CurrentEpoch |-> GENESIS_EPOCH, PreviousEpoch |-> GENESIS_EPOCH]}
    /\ validators = [i \in 0 .. MaxValidators - 2 |->
                        V(MAX_EFFECTIVE_BALANCE, FALSE, GENESIS_EPOCH, GENESIS_EPOCH,
                          FAR_FUTURE_EPOCH, FAR_FUTURE_EPOCH)]
    /\ finalizedEpoch = GENESIS_EPOCH
    /\ prevAtts \in IF epc.CurrentEpoch = GENESIS_EPOCH THEN {<<>>}
                    ELSE SeqsUpTo(InclusionAttestations(epc.PreviousEpoch, Count(validators),
                                                        InclusionDelays, {0, 1}),
                                  MaxPrevAtts)
    /\ currAtts \in SeqsUpTo(InclusionAttestations(epc.CurrentEpoch, Count(validators),
                                                   {1}, {1}),
                             MaxCurrAtts)
    /\ blockRoots = [s \in Slots |-> "a"]
    /\ InitIdle

SpecInclusion == InitInclusion /\ [][Next]_vars

\* The validators a record counts as attesters.
ParticipantsOf(att) ==
    SeqSet(FilterParticipants(att.AggregationBits,
                              GetBeaconCommittee(Count(validators), att.Data.Slot,
                                                 att.Data.Index)))

\* The positions of the previous-epoch records validator i took part in.
PrevRecordsOf(i) == {k \in 1 .. Len(prevAtts) : i \in ParticipantsOf(prevAtts[k])}

\* The first of the records at positions K with the least inclusion delay.
EarliestOf(K) ==
    CHOOSE k \in K :
        \A j \in K : \/ prevAtts[k].InclusionDelay < prevAtts[j].InclusionDelay
                     \/ (prevAtts[k].InclusionDelay = prevAtts[j].InclusionDelay /\ k <= j)

\* The inclusion fields of the participants of the previous-epoch records.
C23_PrevEpochInclusion ==
    pc = "prepared" =>
        \A i \in DOMAIN process.Statuses :
            PrevRecordsOf(i) # {} =>
                LET k == EarliestOf(PrevRecordsOf(i))
                IN  /\ process.Statuses[i].InclusionDelay = prevAtts[k].InclusionDelay
                    /\ process.Statuses[i].AttestedProposer = prevAtts[k].ProposerIndex

\* C23: after PrepareEpochProcess a validator that took part in a
\* previous-epoch record has the least inclusion delay of the previous-epoch
\* records it took part in and the proposer of the first record with that
\* delay; a validator that took part in none keeps the sentinel proposer and
\* the zero delay, whatever the current-epoch records are.
C23_EarliestInclusion ==
    /\ C23_PrevEpochInclusion
    /\ pc = "prepared" =>
           \A i \in DOMAIN process.Statuses :
               PrevRecordsOf(i) = {} =>
                   /\ process.Statuses[i].AttestedProposer = ValidatorIndexMarker
                   /\ process.Statuses[i].InclusionDelay = 0

\* The same with the genesis epoch left out.
C23_AfterGenesis ==
    epc.PreviousEpoch # epc.CurrentEpoch => C23_EarliestInclusion

\* After the genesis epoch: of two previous-epoch records of validator 0 the
\* second has the smaller delay and gives its proposer, and a current-epoch
\* record has a participant with no previous-epoch record.
C23_LaterRecordEarlier ==
    /\ pc = "prepared"
    /\ epc.PreviousEpoch # epc.CurrentEpoch
    /\ Len(prevAtts) = 2
    /\ prevAtts[1].InclusionDelay = 2
    /\ prevAtts[2].InclusionDelay = 1
    /\ process.Statuses[0].InclusionDelay = 1
    /\ process.Statuses[0].AttestedProposer = prevAtts[2].ProposerIndex
    /\ prevAtts[1].ProposerIndex # prevAtts[2].ProposerIndex
    /\ 0 \in ParticipantsOf(prevAtts[1])
    /\ \E i \in ParticipantsOf(currAtts[1]) : PrevRecordsOf(i) = {}

(***************************************************************************)
(* ProcessEpochRegistryUpdates access by access, with the owner of the     *)
(* context free to cancel it between any two accesses.  loop is            *)
(* [accesses, n]: the accesses of the run and how many of them are done.   *)
(***************************************************************************)
\* Lines 64-69: the check of the context on entry.
BeginRegistryUpdates ==
    /\ pc = "prepared"
    /\ IF ctxDone
       THEN /\ err' = TransitionCancelErr
            /\ pc' = "aborted"
            /\ UNCHANGED loop
       ELSE /\ loop' = [accesses |-> RegistryAccesses(validators, process, epc,
                                                       finalizedEpoch),
                        n |-> 0]
            /\ pc' = "updating"
            /\ UNCHANGED err
    /\ UNCHANGED <<validators, epc, finalizedEpoch, prevAtts, currAtts, blockRoots, ctxDone,
                   process, failAt, attIn, attOut>>

RegistryUpdateAccess_Polls ==
    /\ pc = "updating"
    /\ IF ctxDone
       THEN /\ err' = TransitionCancelErr
            /\ pc' = "aborted"
            /\ UNCHANGED <<validators, loop>>
       ELSE IF loop.n = Len(loop.accesses)
            THEN /\ err' = NoErr
                 /\ pc' = "updated"
                 /\ UNCHANGED <<validators, loop>>
            ELSE /\ validators' = ApplyAccesses(validators, loop.accesses, loop.n + 1)
                 /\ loop' = [loop EXCEPT !.n = @ + 1]
                 /\ UNCHANGED <<pc, err>>
    /\ UNCHANGED <<epc, finalizedEpoch, prevAtts, currAtts, blockRoots, ctxDone,
                   process, failAt, attIn, attOut>>

\* Lines 70-140: the next access of the run, its error returned at once, and
\* the return of nil after the last.
RegistryUpdateAccess ==
    /\ pc = "updating"
    /\ IF loop.n = Len(loop.accesses)
       THEN /\ err' = NoErr
            /\ pc' = "updated"
            /\ UNCHANGED <<validators, loop>>
       ELSE IF failAt = loop.n + 1
            THEN /\ err' = AccessErr
                 /\ pc' = "failed"
                 /\ UNCHANGED <<validators, loop>>
            ELSE LET a == loop.accesses[loop.n + 1]
                 IN  /\ validators' = IF a.kind = "write"
                                      THEN [validators EXCEPT ![a.index][a.what] = a.value]
                                      ELSE validators
                     /\ loop' = [loop EXCEPT !.n = @ + 1]
                     /\ UNCHANGED <<pc, err>>
    /\ UNCHANGED <<epc, finalizedEpoch, prevAtts, currAtts, blockRoots, ctxDone,
                   process, failAt, attIn, attOut>>

NextCancel ==
    PrepareEpochProcess \/ BeginRegistryUpdates \/ RegistryUpdateAccess \/ Cancel \/ NextEpoch

InitCancel ==
    /\ epc = [CurrentEpoch |-> StartEpoch, PreviousEpoch |-> StartEpoch - 1]
    /\ validators \in Registries(FaultStages(StartEpoch), MaxValidators)
    /\ finalizedEpoch \in {StartEpoch - 2, StartEpoch - 1}
    /\ prevAtts = <<>>
    /\ currAtts = <<>>
    /\ blockRoots = [s \in Slots |-> "a"]
    /\ ctxDone = FALSE
    /\ pc = "idle"
    /\ process = Nil
    /\ err = NoErr
    /\ loop = Nil
    /\ failAt \in 0 .. 2
    /\ attIn = Nil
    /\ attOut = Nil

SpecCancel == InitCancel /\ [][NextCancel]_vars

\* A call that finds the context cancelled on entry returns
\* TransitionCancelErr and writes nothing.
C24_CancelledOnEntry ==
    [][(pc = "prepared" /\ ctxDone /\ pc' # pc)
          => (pc' = "aborted" /\ err' = TransitionCancelErr /\ validators' = validators)]_vars

\* Past the check on entry no step of the call returns TransitionCancelErr,
\* whether the context is cancelled meanwhile or not.
C24_NoLaterCheck ==
    [][pc = "updating" => (pc' \in {"updating", "updated", "failed"}
                           /\ err' # TransitionCancelErr)]_vars

\* A call that returns nil has applied the three passes whole.
C24_PassesWhole == pc = "updated" => validators = FullUpdate

\* C24: ProcessEpochRegistryUpdates checks the cancellation once, on entry,
\* where a cancelled context makes it return TransitionCancelErr with the
\* registry unchanged; a cancellation after that check does not interrupt
\* it, so no cancellation leaves the ejection, eligibility or activation
\* pass partially applied.
C24_CancellationOnEntryOnly ==
    /\ C24_CancelledOnEntry
    /\ C24_NoLaterCheck
    /\ [](C24_PassesWhole)

\* The context was cancelled while the call was writing, and the call went
\* on to eject, set eligible and activate.
C24_Witness ==
    /\ pc = "updated"
    /\ ctxDone
    /\ err = NoErr
    /\ Len(process.IndicesToEject) > 0
    /\ Len(process.IndicesToSetActivationEligibility) > 0
    /\ Activated # {}
    /\ validators = FullUpdate

(***************************************************************************)
(* The signature check of an indexed attestation on its own.               *)
(***************************************************************************)
\* C25: ValidateIndexedAttestationSignature returns an error and does not
\* invoke the aggregate verifier when an attesting index has no cached key
\* or the list of attesting indices is empty; otherwise it invokes the
\* verifier once, on the keys of the attesting indices in their order, and
\* returns nil exactly when the verifier accepts.
C25_SignatureCheck ==
    attOut.fn = "ValidateIndexedAttestationSignature" =>
        LET indices == attIn.AttestingIndices
            unkeyed == \E k \in 1 .. Len(indices) : indices[k] \notin attIn.PubkeyCache
            invoked == \E k \in 1 .. Len(attOut.calls) : attOut.calls[k] = "FastAggregateVerify"
        IN  /\ (unkeyed \/ Len(indices) = 0) =>
                  /\ attOut.err \in {ErrNoPubkey, ErrEmpty}
                  /\ ~invoked
                  /\ attOut.verified = <<>>
            /\ ~(unkeyed \/ Len(indices) = 0) =>
                  /\ attOut.verified = <<indices>>
                  /\ attOut.calls[Len(attOut.calls)] = "FastAggregateVerify"
                  /\ (attOut.err = NoErr) <=> attIn.SignatureValid
                  /\ attOut.err \in {NoErr, ErrSignature}

\* The last of three unsorted indices has no cached key, and the verifier
\* would have accepted.
C25_Witness ==
    /\ attOut.fn = "ValidateIndexedAttestationSignature"
    /\ Len(attIn.AttestingIndices) = 3
    /\ attIn.AttestingIndices[1] > attIn.AttestingIndices[2]
    /\ attIn.AttestingIndices[1] \in attIn.PubkeyCache
    /\ attIn.AttestingIndices[2] \in attIn.PubkeyCache
    /\ attIn.AttestingIndices[3] \notin attIn.PubkeyCache
    /\ attIn.SignatureValid
    /\ attOut.err = ErrNoPubkey
    /\ attOut.calls = <<"Pubkey", "Pubkey", "Pubkey">>

\* No index and so no key to miss: the emptiness check is what rejects.
C25_EmptyRejected ==
    /\ attOut.fn = "ValidateIndexedAttestationSignature"
    /\ attIn.AttestingIndices = <<>>
    /\ attIn.SignatureValid
    /\ attOut.err = ErrEmpty
    /\ attOut.calls = <<>>

(***************************************************************************)
(* ValidateAttesterSlashing.  attIn is the attester slashing with, for     *)
(* each of its attestations, the verdict of the aggregate verifier; the    *)
(* backend is the set of indices it has seen in prior attester slashings   *)
(* and what its HeadInfo gives: the head state, whose registry is          *)
(* validators, or an error.                                                *)
(***************************************************************************)
ACCEPT == "ACCEPT"
IGNORE == "IGNORE"
REJECT == "REJECT"

GossipValidatorResult(result, error) == [result |-> result, err |-> error]

\* The backend reports whether it has seen every index of the list.
AttesterSlashableAllSeen(seen, indices) ==
    \A k \in 1 .. Len(indices) : indices[k] \in seen

\* not slashed, and activation_epoch <= epoch < withdrawable_epoch
IsSlashable(validator, epoch) ==
    /\ ~validator.Slashed
    /\ validator.ActivationEpoch <= epoch
    /\ epoch < validator.WithdrawableEpoch

\* Lines 60-67: keep the slashable indices, stop at the first validator
\* that cannot be read.
RECURSIVE FilterSlashable(_, _, _, _)
FilterSlashable(vals, slashable, k, epoch) ==
    IF k > Len(slashable) THEN [err |-> NoErr, kept |-> <<>>]
    ELSE IF ~IsValidIndex(vals, slashable[k]) THEN [err |-> AccessErr, kept |-> <<>>]
    ELSE LET rest == FilterSlashable(vals, slashable, k + 1, epoch)
         IN  [err |-> rest.err,
              kept |-> IF rest.err # NoErr THEN <<>>
                       ELSE (IF IsSlashable(vals[slashable[k]], epoch)
                             THEN <<slashable[k]>> ELSE <<>>) \o rest.kept]

ValidateAttesterSlashingOut_AnyRemaining(attSl, seen, head, vals, pubCache, epoch) ==
    LET sa1 == attSl.Attestation1
        sa2 == attSl.Attestation2
        r1 == ValidateIndexedAttestationIndicesSet(sa1.AttestingIndices)
        r2 == ValidateIndexedAttestationIndicesSet(sa2.AttestingIndices)
        slashable == ZigZagJoin(r1.indices, r2.indices, 1, 1)
        filtered == FilterSlashable(vals, slashable, 1, epoch)
    IN  IF ~IsSlashableAttestationData(sa1.Data, sa2.Data)
        THEN GossipValidatorResult(REJECT, "attester slashing has no valid reasoning")
        ELSE IF r1.err # NoErr
        THEN GossipValidatorResult(REJECT, "attestation 1 of attester slashing cannot be verified")
        ELSE IF r2.err # NoErr
        THEN GossipValidatorResult(REJECT, "attestation 2 of attester slashing cannot be verified")
        ELSE IF AttesterSlashableAllSeen(seen, slashable)
        THEN GossipValidatorResult(IGNORE, "no unseen slashable attester indices")
        ELSE IF head = "HeadInfoErr"
        THEN GossipValidatorResult(IGNORE, "HeadInfoErr")
        ELSE IF head = "ValidatorsErr"
        THEN GossipValidatorResult(IGNORE, "no access to validators state data")
        ELSE IF filtered.err # NoErr
        THEN GossipValidatorResult(REJECT, "cannot access validator data")
        ELSE IF ValidateIndexedAttestation(vals, pubCache, sa1.SignatureValid,
                                           sa1.AttestingIndices).err # NoErr
        THEN GossipValidatorResult(REJECT, "attester slashing att 1 signature is invalid")
        ELSE IF ValidateIndexedAttestation(vals, pubCache, sa2.SignatureValid,
                                           sa2.AttestingIndices).err # NoErr
        THEN GossipValidatorResult(REJECT, "attester slashing att 2 signature is invalid")
        ELSE GossipValidatorResult(ACCEPT, NoErr)

\* Lines 21-85.
ValidateAttesterSlashingOut(attSl, seen, head, vals, pubCache, epoch) ==
    LET sa1 == attSl.Attestation1
        sa2 == attSl.Attestation2
        r1 == ValidateIndexedAttestationIndicesSet(sa1.AttestingIndices)
        r2 == ValidateIndexedAttestationIndicesSet(sa2.AttestingIndices)
        slashable == ZigZagJoin(r1.indices, r2.indices, 1, 1)
        filtered == FilterSlashable(vals, slashable, 1, epoch)
    IN  IF ~IsSlashableAttestationData(sa1.Data, sa2.Data)
        THEN GossipValidatorResult(REJECT, "attester slashing has no valid reasoning")
        ELSE IF r1.err # NoErr
        THEN GossipValidatorResult(REJECT, "attestation 1 of attester slashing cannot be verified")
        ELSE IF r2.err # NoErr
        THEN GossipValidatorResult(REJECT, "attestation 2 of attester slashing cannot be verified")
        ELSE IF AttesterSlashableAllSeen(seen, slashable)
        THEN GossipValidatorResult(IGNORE, "no unseen slashable attester indices")
        ELSE IF head = "HeadInfoErr"
        THEN GossipValidatorResult(IGNORE, "HeadInfoErr")
        ELSE IF head = "ValidatorsErr"
        THEN GossipValidatorResult(IGNORE, "no access to validators state data")
        ELSE IF filtered.err # NoErr
        THEN GossipValidatorResult(REJECT, "cannot access validator data")
        ELSE IF Len(filtered.kept) = 0
        THEN GossipValidatorResult(REJECT, "no slashable validators remain after checking against current head state")
        ELSE IF ValidateIndexedAttestation(vals, pubCache, sa1.SignatureValid,
                                           sa1.AttestingIndices).err # NoErr
        THEN GossipValidatorResult(REJECT, "attester slashing att 1 signature is invalid")
        ELSE IF ValidateIndexedAttestation(vals, pubCache, sa2.SignatureValid,
                                           sa2.AttestingIndices).err # NoErr
        THEN GossipValidatorResult(REJECT, "attester slashing att 2 signature is invalid")
        ELSE GossipValidatorResult(ACCEPT, NoErr)

ValidateAttesterSlashing ==
    /\ pc = "slashing"
    /\ attOut = NoResult
    /\ LET r == ValidateAttesterSlashingOut(attIn.attSl, attIn.Seen, attIn.Head, validators,
                                            DOMAIN validators, epc.CurrentEpoch)
       IN  attOut' = [fn |-> "ValidateAttesterSlashing", result |-> r.result, err |-> r.err]
    /\ UNCHANGED <<validators, epc, finalizedEpoch, prevAtts, currAtts, blockRoots,
                   ctxDone, pc, process, err, loop, failAt, attIn>>

\* Two data, of which the first surrounds the second, votes twice with the
\* third, and is not slashable with the fourth or with itself.
SlashingData(source, target) ==
    [Slot |-> 0, Index |-> 0, BeaconBlockRoot |-> "a",
     Source |-> [Epoch |-> source, Root |-> "a"],
     Target |-> [Epoch |-> target, Root |-> "a"]]

SlashingDatas(c) ==
    {SlashingData(c - 2, c + 1), SlashingData(c - 1, c), SlashingData(c - 1, c + 1),
     SlashingData(c - 2, c)}

\* Head registries: the first validator and the others are slashable or
\* already slashed.
SlashingRegistries(c, n) ==
    {[i \in 0 .. n - 1 |-> IF i = 0 THEN first ELSE others] :
        first \in {V(MAX_EFFECTIVE_BALANCE, s, GENESIS_EPOCH, GENESIS_EPOCH,
                     FAR_FUTURE_EPOCH, FAR_FUTURE_EPOCH) : s \in BOOLEAN},
        others \in {V(MAX_EFFECTIVE_BALANCE, s, GENESIS_EPOCH, GENESIS_EPOCH,
                      FAR_FUTURE_EPOCH, FAR_FUTURE_EPOCH) : s \in BOOLEAN}}

InitSlashing ==
    /\ epc = [CurrentEpoch |-> StartEpoch, PreviousEpoch |-> StartEpoch - 1]
    /\ validators \in SlashingRegistries(StartEpoch, MaxValidators - 1)
    /\ finalizedEpoch = GENESIS_EPOCH
    /\ prevAtts = <<>>
    /\ currAtts = <<>>
    /\ blockRoots = [s \in Slots |-> "a"]
    /\ ctxDone = FALSE
    /\ pc = "slashing"
    /\ process = Nil
    /\ err = NoErr
    /\ loop = Nil
    /\ failAt = 0
    /\ \E d2 \in SlashingDatas(StartEpoch),
          i1, i2 \in SeqsUpTo(0 .. MaxValidators - 1, 2),
          sigs \in {<<TRUE, TRUE>>, <<FALSE, TRUE>>, <<TRUE, FALSE>>},
          seen \in {{}, {0}, 0 .. MaxValidators - 1},
          head \in {"ok", "HeadInfoErr", "ValidatorsErr"} :
          attIn = [attSl |-> [Attestation1 |->
                                  [AttestingIndices |-> i1,
                                   Data |-> SlashingData(StartEpoch - 2, StartEpoch + 1),
                                   SignatureValid |-> sigs[1]],
                              Attestation2 |->
                                  [AttestingIndices |-> i2, Data |-> d2,
                                   SignatureValid |-> sigs[2]]],
                   Seen |-> seen,
                   Head |-> head]
    /\ attOut = NoResult

SpecSlashing == InitSlashing /\ [][ValidateAttesterSlashing]_vars

\* What each stage of the validation looks at, each on its own.
SlashingIntersection ==
    SeqSet(attIn.attSl.Attestation1.AttestingIndices)
        \cap SeqSet(attIn.attSl.Attestation2.AttestingIndices)

SlashingAllSeen == SlashingIntersection \subseteq attIn.Seen

SlashingHeadMissing == attIn.Head # "ok"

SlashingLightChecks ==
    /\ LET a == attIn.attSl.Attestation1.Data
           b == attIn.attSl.Attestation2.Data
       IN  \/ (a # b /\ a.Target.Epoch = b.Target.Epoch)
           \/ (a.Source.Epoch < b.Source.Epoch /\ b.Target.Epoch < a.Target.Epoch)
    /\ WellFormed(attIn.attSl.Attestation1.AttestingIndices)
    /\ WellFormed(attIn.attSl.Attestation2.AttestingIndices)

SlashingFullValidation(sa) ==
    /\ WellFormed(sa.AttestingIndices)
    /\ AllInRange(sa.AttestingIndices)
    /\ sa.SignatureValid

SlashingAcceptable ==
    /\ SlashingLightChecks
    /\ ~SlashingAllSeen
    /\ ~SlashingHeadMissing
    /\ \E i \in SlashingIntersection :
          i \in DOMAIN validators /\ IsSlashable(validators[i], epc.CurrentEpoch)
    /\ SlashingFullValidation(attIn.attSl.Attestation1)
    /\ SlashingFullValidation(attIn.attSl.Attestation2)

\* The claim as stated: ACCEPT only if every condition holds, IGNORE exactly
\* when the backend has seen every index of the intersection or the head
\* info or the registry is not to be had, REJECT in every other failing case.
C26_IgnoreWheneverSeen ==
    attOut.fn = "ValidateAttesterSlashing" =>
        /\ attOut.result \in {ACCEPT, IGNORE, REJECT}
        /\ attOut.result = ACCEPT => SlashingAcceptable
        /\ attOut.result = IGNORE <=> (SlashingAllSeen \/ SlashingHeadMissing)
        /\ (attOut.result # ACCEPT /\ ~(SlashingAllSeen \/ SlashingHeadMissing))
               => attOut.result = REJECT

\* C26: ValidateAttesterSlashing returns ACCEPT exactly when the data are
\* slashable, both index sets well-formed, not every index of the
\* intersection seen, head info and registry at hand, an index of the
\* intersection slashable in the head state and both attestations fully
\* valid; it returns IGNORE exactly when the data are slashable, both index
\* sets well-formed, and then every index of the intersection was seen or
\* the head info or the registry is not to be had; it returns REJECT in
\* every other case.
C26_GossipResult ==
    attOut.fn = "ValidateAttesterSlashing" =>
        /\ attOut.result \in {ACCEPT, IGNORE, REJECT}
        /\ attOut.result = ACCEPT <=> SlashingAcceptable
        /\ attOut.result = IGNORE <=>
               (SlashingLightChecks /\ (SlashingAllSeen \/ SlashingHeadMissing))

\* Slashable data, two well-formed index sets that share validators 0 and 1,
\* of which the backend has seen only 0 and only 1 is still slashable.
C26_Witness ==
    /\ attOut.fn = "ValidateAttesterSlashing"
    /\ attOut.result = ACCEPT
    /\ SlashingIntersection = {0, 1}
    /\ attIn.Seen = {0}
    /\ validators[0].Slashed
    /\ ~validators[1].Slashed

\* Data that are not slashable, with every index of the intersection seen.
C26_RejectedThoughSeen ==
    /\ attOut.fn = "ValidateAttesterSlashing"
    /\ attOut.result = REJECT
    /\ SlashingIntersection # {}
    /\ SlashingAllSeen
    /\ ~SlashingLightChecks

(***************************************************************************)
(* ProcessVoluntaryExits, one iteration of its loop per step, with the     *)
(* owner of the context free to cancel it between two iterations.  attIn   *)
(* is the input: the list of signed exits, each with the verdict of the    *)
(* signature verifier on it, the indices the public-key cache holds a key  *)
(* for, and the registry as it is when the call starts; loop.i is the      *)
(* position of the next exit.                                              *)
(***************************************************************************)
SHARD_COMMITTEE_PERIOD == 2
MaxExits == 2

ErrExitIndex == "invalid exit validator index"
ErrExitInactive == "validator must be active to be able to voluntarily exit"
ErrExitExited == "validator already exited"
ErrExitEpoch == "invalid exit epoch"
ErrExitTooSoon == "exit is too soon"
ErrExitNoPubkey == "could not find index of exiting validator"
ErrExitSignature == "voluntary exit signature could not be verified"

\* Lines 141-199: the error of the first check that fails, or nil.
ValidateVoluntaryExit(vals, currentEpoch, pubCache, signedExit) ==
    LET exit == signedExit.Message
    IN  IF ~IsValidIndex(vals, exit.ValidatorIndex) THEN ErrExitIndex
        ELSE IF ~IsActive(vals[exit.ValidatorIndex], currentEpoch) THEN ErrExitInactive
        ELSE IF vals[exit.ValidatorIndex].ExitEpoch # FAR_FUTURE_EPOCH THEN ErrExitExited
        ELSE IF currentEpoch < exit.Epoch THEN ErrExitEpoch
        ELSE IF currentEpoch < vals[exit.ValidatorIndex].ActivationEpoch
                                   + SHARD_COMMITTEE_PERIOD
        THEN ErrExitTooSoon
        ELSE IF exit.ValidatorIndex \notin pubCache THEN ErrExitNoPubkey
        ELSE IF ~signedExit.SignatureValid THEN ErrExitSignature
        ELSE NoErr

\* Lines 201-206: [vals, err].
ProcessVoluntaryExit(vals, currentEpoch, pubCache, signedExit) ==
    LET e == ValidateVoluntaryExit(vals, currentEpoch, pubCache, signedExit)
    IN  IF e # NoErr THEN [vals |-> vals, err |-> e]
        ELSE [vals |-> InitiateValidatorExitOut(
                           vals, signedExit.Message.ValidatorIndex, currentEpoch,
                           GetChurnLimit(ActiveIndicesCount(vals, currentEpoch))),
              err |-> NoErr]

ProcessVoluntaryExitsStep_SkipsInvalid ==
    /\ pc = "exits"
    /\ IF loop.i > Len(attIn.ops)
       THEN /\ err' = NoErr
            /\ pc' = "exited"
            /\ UNCHANGED <<validators, loop>>
       ELSE IF ctxDone
            THEN /\ err' = TransitionCancelErr
                 /\ pc' = "aborted"
                 /\ UNCHANGED <<validators, loop>>
            ELSE LET r == ProcessVoluntaryExit(validators, epc.CurrentEpoch,
                                               attIn.PubkeyCache, attIn.ops[loop.i])
                 IN  /\ validators' = r.vals
                     /\ loop' = [loop EXCEPT !.i = @ + 1]
                     /\ UNCHANGED <<pc, err>>
    /\ UNCHANGED <<epc, finalizedEpoch, prevAtts, currAtts, blockRoots, ctxDone,
                   process, failAt, attIn, attOut>>

\* Lines 65-78: the return of nil after the last exit, or the poll of the
\* context and ProcessVoluntaryExit of the next exit.
ProcessVoluntaryExitsStep ==
    /\ pc = "exits"
    /\ IF loop.i > Len(attIn.ops)
       THEN /\ err' = NoErr
            /\ pc' = "exited"
            /\ UNCHANGED <<validators, loop>>
       ELSE IF ctxDone
            THEN /\ err' = TransitionCancelErr
                 /\ pc' = "aborted"
                 /\ UNCHANGED <<validators, loop>>
            ELSE LET r == ProcessVoluntaryExit(validators, epc.CurrentEpoch,
                                               attIn.PubkeyCache, attIn.ops[loop.i])
                 IN  IF r.err # NoErr
                     THEN /\ err' = r.err
                          /\ pc' = "failed"
                          /\ validators' = r.vals
                          /\ UNCHANGED loop
                     ELSE /\ validators' = r.vals
                          /\ loop' = [loop EXCEPT !.i = @ + 1]
                          /\ UNCHANGED <<pc, err>>
    /\ UNCHANGED <<epc, finalizedEpoch, prevAtts, currAtts, blockRoots, ctxDone,
                   process, failAt, attIn, attOut>>

NextVoluntaryExits == ProcessVoluntaryExitsStep \/ Cancel

\* The first validator is active for long, activated too recently, exiting
\* or not yet active; the others are active for long.
VoluntaryExitRegistries(c, n) ==
    {[i \in 0 .. n - 1 |->
         IF i = 0 THEN first
         ELSE V(MAX_EFFECTIVE_BALANCE, FALSE, GENESIS_EPOCH, GENESIS_EPOCH,
                FAR_FUTURE_EPOCH, FAR_FUTURE_EPOCH)] :
        first \in {V(MAX_EFFECTIVE_BALANCE, FALSE, GENESIS_EPOCH, GENESIS_EPOCH,
                     FAR_FUTURE_EPOCH, FAR_FUTURE_EPOCH),
                   V(MAX_EFFECTIVE_BALANCE, FALSE, c - 2, c - 1,
                     FAR_FUTURE_EPOCH, FAR_FUTURE_EPOCH),
                   V(MAX_EFFECTIVE_BALANCE, FALSE, GENESIS_EPOCH, GENESIS_EPOCH,
                     ComputeActivationExitEpoch(c),
                     ComputeActivationExitEpoch(c) + MIN_VALIDATOR_WITHDRAWABILITY_DELAY),
                   V(MAX_EFFECTIVE_BALANCE, FALSE, c, FAR_FUTURE_EPOCH,
                     FAR_FUTURE_EPOCH, FAR_FUTURE_EPOCH)}}

\* A signed exit for any index up to the first beyond the registry: in
\* order, for an epoch still to come, or with a signature that does not
\* verify.
SignedVoluntaryExits(c, n) ==
    {[Message |-> [Epoch |-> k[1], ValidatorIndex |-> i], SignatureValid |-> k[2]] :
        k \in {<<c, TRUE>>, <<c + 1, TRUE>>, <<c - 1, FALSE>>}, i \in 0 .. n}

InitVoluntaryExits ==
    /\ epc = [CurrentEpoch |-> StartEpoch, PreviousEpoch |-> StartEpoch - 1]
    /\ validators \in VoluntaryExitRegistries(StartEpoch, MaxValidators - 1)
    /\ finalizedEpoch = GENESIS_EPOCH
    /\ prevAtts = <<>>
    /\ currAtts = <<>>
    /\ blockRoots = [s \in Slots |-> "a"]
    /\ ctxDone = FALSE
    /\ pc = "exits"
    /\ process = Nil
    /\ err = NoErr
    /\ loop = [i |-> 1]
    /\ failAt = 0
    /\ \E ops \in SeqsUpTo(SignedVoluntaryExits(StartEpoch, Count(validators)), MaxExits),
          cache \in {DOMAIN validators, DOMAIN validators \ {1}} :
          attIn = [ops |-> ops, PubkeyCache |-> cache, Validators |-> validators]
    /\ attOut = Nil

SpecVoluntaryExits == InitVoluntaryExits /\ [][NextVoluntaryExits]_vars

\* What makes a signed exit valid on a registry, each condition on its own.
ExitValid(vals, signedExit) ==
    LET i == signedExit.Message.ValidatorIndex
    IN  /\ i \in DOMAIN vals
        /\ vals[i].ActivationEpoch <= epc.CurrentEpoch
        /\ epc.CurrentEpoch < vals[i].ExitEpoch
        /\ vals[i].ExitEpoch = FAR_FUTURE_EPOCH
        /\ signedExit.Message.Epoch <= epc.CurrentEpoch
        /\ vals[i].ActivationEpoch + SHARD_COMMITTEE_PERIOD <= epc.CurrentEpoch
        /\ i \in attIn.PubkeyCache
        /\ signedExit.SignatureValid

\* The validators of the exits before position i.
ExitedBefore(i) == {attIn.ops[k].Message.ValidatorIndex : k \in 1 .. i - 1}

\* An exit that fails validation ends the call with its error and changes
\* nothing in the registry.
C27_InvalidExitStops ==
    [][(pc = "exits" /\ pc' = "failed")
          => /\ ~ExitValid(validators, attIn.ops[loop.i])
             /\ ~ctxDone
             /\ err' \notin {NoErr, TransitionCancelErr}
             /\ validators' = validators
             /\ loop' = loop]_vars

\* A poll that finds the context cancelled ends the call before the exit at
\* hand, and an exit is only processed after a poll that found it not
\* cancelled and after its validation.
C27_PollBeforeEach ==
    [][/\ (pc = "exits" /\ pc' = "aborted")
            => (ctxDone /\ err' = TransitionCancelErr /\ validators' = validators
                /\ loop' = loop)
       /\ (pc = "exits" /\ loop'.i # loop.i)
            => /\ ~ctxDone
               /\ loop'.i = loop.i + 1
               /\ ExitValid(validators, attIn.ops[loop.i])
               /\ validators'[attIn.ops[loop.i].Message.ValidatorIndex].ExitEpoch
                      # FAR_FUTURE_EPOCH
               /\ \A v \in DOMAIN validators :
                      v # attIn.ops[loop.i].Message.ValidatorIndex
                          => validators'[v] = validators[v]
       /\ (pc = "exits" /\ ctxDone /\ loop.i <= Len(attIn.ops) /\ pc' # pc)
            => pc' = "aborted"]_vars

\* Whenever and however the call returns, the exits before the position it
\* stopped at have their exit and withdrawable epochs, and no validator
\* named only at or after that position has changed.
C27_EarlierRemainLaterUntouched ==
    pc \in {"exits", "exited", "failed", "aborted"} =>
        /\ loop.i \in 1 .. Len(attIn.ops) + 1
        /\ pc = "exited" => loop.i = Len(attIn.ops) + 1
        /\ \A v \in ExitedBefore(loop.i) :
              /\ validators[v].ExitEpoch # FAR_FUTURE_EPOCH
              /\ attIn.Validators[v].ExitEpoch = FAR_FUTURE_EPOCH
              /\ validators[v].WithdrawableEpoch
                     = validators[v].ExitEpoch + MIN_VALIDATOR_WITHDRAWABILITY_DELAY
        /\ \A v \in DOMAIN validators \ ExitedBefore(loop.i) :
              validators[v] = attIn.Validators[v]

\* C27: ProcessVoluntaryExits takes the exits in list order and polls the
\* cancellation before each; at the first exit that fails validation, or the
\* first poll that finds the context cancelled, it returns the error with no
\* later exit processed and the epochs written for the earlier exits in
\* place; an exit that fails validation changes nothing in the registry.
C27_VoluntaryExits ==
    /\ C27_InvalidExitStops
    /\ C27_PollBeforeEach
    /\ [](C27_EarlierRemainLaterUntouched)

\* The second exit failed validation after the first was processed: the
\* first validator's epochs are written, the second's are not.
C27_Witness ==
    /\ pc = "failed"
    /\ loop.i = 2
    /\ Len(attIn.ops) >= 2
    /\ attIn.ops[1].Message.ValidatorIndex = 1
    /\ attIn.ops[2].Message.ValidatorIndex = 2
    /\ validators[1].ExitEpoch = ComputeActivationExitEpoch(epc.CurrentEpoch)
    /\ validators[1].WithdrawableEpoch
           = validators[1].ExitEpoch + MIN_VALIDATOR_WITHDRAWABILITY_DELAY
    /\ validators[2] = attIn.Validators[2]
    /\ err = ErrExitSignature

\* The context was cancelled after the first exit was processed.
C27_CancelledBetween ==
    /\ pc = "aborted"
    /\ loop.i = 2
    /\ Len(attIn.ops) >= 2
    /\ validators[attIn.ops[1].Message.ValidatorIndex].ExitEpoch # FAR_FUTURE_EPOCH
    /\ ExitValid(validators, attIn.ops[2])

(***************************************************************************)
(* InitiateValidatorExit called any number of times within one epoch, on   *)
(* registries that already hold exits before, at and after                 *)
(* ComputeActivationExitEpoch(current epoch), none of them held by more    *)
(* validators than the churn limit.  attIn keeps the registry of the       *)
(* start.                                                                  *)
(***************************************************************************)
ExitHolders(vals, e) == {i \in DOMAIN vals : vals[i].ExitEpoch = e}

ExitEpochsSet(vals) == {vals[i].ExitEpoch : i \in DOMAIN vals} \ {FAR_FUTURE_EPOCH}

ChurnRespected(vals, churnLimit) ==
    \A e \in ExitEpochsSet(vals) : Cardinality(ExitHolders(vals, e)) <= churnLimit

ExitQueueStages(c) ==
    {V(MAX_EFFECTIVE_BALANCE, FALSE, GENESIS_EPOCH, GENESIS_EPOCH, FAR_FUTURE_EPOCH,
       FAR_FUTURE_EPOCH)}
    \cup {V(MAX_EFFECTIVE_BALANCE, FALSE, GENESIS_EPOCH, GENESIS_EPOCH, x,
            x + MIN_VALIDATOR_WITHDRAWABILITY_DELAY) :
             x \in ComputeActivationExitEpoch(c) - 1 .. ComputeActivationExitEpoch(c) + 1}

InitInitiateExit ==
    /\ epc = [CurrentEpoch |-> StartEpoch, PreviousEpoch |-> StartEpoch - 1]
    /\ validators \in {r \in Registries(ExitQueueStages(StartEpoch), MaxValidators) :
                          ChurnRespected(r, GetChurnLimit(ActiveIndicesCount(r, StartEpoch)))}
    /\ finalizedEpoch = StartEpoch - 1
    /\ prevAtts = <<>>
    /\ currAtts = <<>>
    /\ blockRoots = [s \in Slots |-> "a"]
    /\ ctxDone = FALSE
    /\ pc = "idle"
    /\ process = Nil
    /\ err = NoErr
    /\ loop = Nil
    /\ failAt = 0
    /\ attIn = [Validators |-> validators]
    /\ attOut = NoResult

SpecInitiateExit == InitInitiateExit /\ [][InitiateValidatorExit]_vars

\* C28: InitiateValidatorExit for a validator whose exit epoch is set
\* returns nil and changes no field of any validator; after a call the exit
\* epoch of its validator is set, so a second call for the same index
\* leaves the registry of the first.
C28_Idempotent ==
    /\ [][validators[attOut'.index].ExitEpoch # FAR_FUTURE_EPOCH
             => (validators' = validators /\ attOut'.err = NoErr /\ err' = NoErr)]_vars
    /\ [][attOut'.repeat => validators' = validators]_vars
    /\ [](attOut.fn = "InitiateValidatorExit"
             => validators[attOut.index].ExitEpoch # FAR_FUTURE_EPOCH)

\* A validator without exit at the start was called for twice in a row,
\* behind an exit queue that the first call found full.
C28_Witness ==
    /\ attOut.fn = "InitiateValidatorExit"
    /\ attOut.repeat
    /\ attIn.Validators[attOut.index].ExitEpoch = FAR_FUTURE_EPOCH
    /\ validators[attOut.index].ExitEpoch = ComputeActivationExitEpoch(epc.CurrentEpoch) + 2
    /\ \A j \in DOMAIN validators : j # attOut.index => validators[j] = attIn.Validators[j]

\* The churn limit of the epoch.
EpochChurnLimit == GetChurnLimit(ActiveIndicesCount(attIn.Validators, epc.CurrentEpoch))

\* A call that assigns an exit epoch assigns one not before
\* ComputeActivationExitEpoch(current epoch) nor before any exit epoch set
\* in the registry, with the withdrawable epoch the delay later, and
\* changes no other validator.
C29_NewExitEpoch ==
    [][LET i == attOut'.index
       IN  validators[i].ExitEpoch = FAR_FUTURE_EPOCH =>
               /\ validators'[i].ExitEpoch # FAR_FUTURE_EPOCH
               /\ validators'[i].ExitEpoch >= ComputeActivationExitEpoch(epc.CurrentEpoch)
               /\ \A e \in ExitEpochsSet(validators) : validators'[i].ExitEpoch >= e
               /\ validators'[i].WithdrawableEpoch
                      = validators'[i].ExitEpoch + MIN_VALIDATOR_WITHDRAWABILITY_DELAY
               /\ \A j \in DOMAIN validators : j # i => validators'[j] = validators[j]]_vars

\* C29: from a registry in which no exit epoch is held by more validators
\* than the churn limit, every sequence of InitiateValidatorExit calls of
\* one epoch keeps the churn limit constant and no exit epoch held by more
\* validators than it, and each exit epoch it assigns is at least
\* ComputeActivationExitEpoch(current epoch) and every exit epoch set
\* before, with withdrawable epoch = exit epoch +
\* MIN_VALIDATOR_WITHDRAWABILITY_DELAY.
C29_ExitQueueChurn ==
    /\ C29_NewExitEpoch
    /\ [](/\ GetChurnLimit(ActiveIndicesCount(validators, epc.CurrentEpoch)) = EpochChurnLimit
          /\ ChurnRespected(validators, EpochChurnLimit))

\* At churn limit 2, behind two exits queued after
\* ComputeActivationExitEpoch(current epoch), two calls share the next epoch.
C29_Witness ==
    /\ attOut.fn = "InitiateValidatorExit"
    /\ EpochChurnLimit = 2
    /\ Cardinality({i \in DOMAIN validators :
                       /\ attIn.Validators[i].ExitEpoch
                              = ComputeActivationExitEpoch(epc.CurrentEpoch) + 1
                       /\ validators[i] = attIn.Validators[i]}) = 2
    /\ Cardinality({i \in DOMAIN validators :
                       /\ attIn.Validators[i].ExitEpoch = FAR_FUTURE_EPOCH
                       /\ validators[i].ExitEpoch
                              = ComputeActivationExitEpoch(epc.CurrentEpoch) + 2}) = 2

====
